---- MODULE Spec2Model ----
(***************************************************************************)
(* HandlerManager (src/unnamed/part_002, lines 17-502): the component that *)
(* dispatches input events to gesture handlers, queues their merged        *)
(* results, flushes the queue once per render frame into the camera        *)
(* transform and derives the start/move/end notifications.                 *)
(*                                                                         *)
(* JavaScript values are encoded as follows.  An optional value is a       *)
(* sequence: <<>> is `undefined`, <<v>> is a number or a boolean v, and a  *)
(* Point is the pair <<x, y>>.  A DOM event is identified by its type;      *)
(* "" stands for "no event" (undefined).  An object used as a              *)
(* set of keys (activeHandlers) is a set; an object used as a map          *)
(* (eventsInProgress, deactivatedHandlers) is a function with a value      *)
(* that marks an absent key.  Keys of such maps are visited in the fixed   *)
(* order CatOrder.                                                         *)
(***************************************************************************)
EXTENDS Integers, Sequences, FiniteSets, TLC

\* ------------------------------------------------------------------ bounds
MaxQueue == 2        \* longest change queue a dispatch may leave behind
PanStep == 5         \* the pan distance of one pointer move, in pixels
MaxSamples == 1      \* capacity of the inertia ring

\* ------------------------------------------------------------ configuration
bearingSnap == 2     \* options.bearingSnap, in quarter turns

\* --------------------------------------------------------------- encodings
Undef == <<>>
NoEvent == ""
Absent == "absent"

Truthy(v) == v # Undef /\ v[1] # 0          \* an optional number
IsTrue(v) == v # Undef /\ v[1] = TRUE       \* an optional boolean
Null == <<0>>                               \* `null` where a Point may stand
IsPoint(v) == Len(v) = 2                    \* a Point object, hence truthy
Num(v) == IF v = Undef THEN 0 ELSE v[1]
Abs(n) == IF n < 0 THEN -n ELSE n

PointAdd(p, q) == <<p[1] + q[1], p[2] + q[2]>>
PointSub(p, q) == <<p[1] - q[1], p[2] - q[2]>>
Mag2(p) == p[1] * p[1] + p[2] * p[2]

\* ------------------------------------------------------------ HandlerResult
FieldNames ==
    {"panDelta", "zoomDelta", "bearingDelta", "pitchDelta", "around",
     "pinchAround", "cameraAnimation", "originalEvent", "needsRenderFrame",
     "noInertia"}

EmptyResult == [f \in FieldNames |-> Undef]

extendKeep(dest, src) ==
    [f \in FieldNames |-> IF dest[f] # Undef THEN dest[f] ELSE src[f]]

extend(dest, src) ==
    [f \in FieldNames |-> IF src[f] # Undef THEN src[f] ELSE dest[f]]

hasChange(result) ==
    \/ (result.panDelta # Undef /\ Mag2(result.panDelta) # 0)
    \/ Truthy(result.zoomDelta)
    \/ Truthy(result.bearingDelta)
    \/ Truthy(result.pitchDelta)

\* ---------------------------------------------------------------- registry
\* The handlers of _addDefaultHandlers that the model registers, in the order
\* of their _add calls.
Handlers == <<"mouseRotate", "mousePitch", "mousePan", "scrollZoom", "keyboard">>

HandlerNames == {Handlers[i] : i \in DOMAIN Handlers}

\* the `allowed` argument of _add: <<>> when omitted, else <<set of names>>
AllowedOf(h) ==
    CASE h = "mouseRotate" -> <<{"mousePitch"}>>
      [] h = "mousePitch" -> <<{"mouseRotate"}>>
      [] h = "mousePan" -> Undef
      [] h = "scrollZoom" -> <<{"mousePan"}>>
      [] h = "keyboard" -> Undef

\* lines 266-274
blockedByActiveIfListed(activeHandlers, allowed, myName) ==
    \E name \in activeHandlers :
        /\ name # myName
        /\ allowed # Undef
        /\ name \notin allowed[1]

blockedByActiveSelf(activeHandlers, allowed, myName) ==
    \E name \in activeHandlers :
        allowed = Undef \/ name \notin allowed[1]

blockedByActive(activeHandlers, allowed, myName) ==
    \E name \in activeHandlers :
        /\ name # myName
        /\ (allowed = Undef \/ name \notin allowed[1])

\* ------------------------------------------------------- events in progress
CatOrder == <<"zoom", "drag", "pitch", "rotate">>
Categories == {CatOrder[i] : i \in DOMAIN CatOrder}

NoOwner == [handlerName |-> "", originalEvent |-> NoEvent]
NoEvents == [c \in Categories |-> NoOwner]
NoDeactivated == [h \in HandlerNames |-> Absent]

Present(p, c) == p[c].handlerName # ""

isMoving(p) == \E c \in Categories : Present(p, c)

\* the value of `isMoving(p).originalEvent`: p.zoom || p.drag || p.pitch || p.rotate
MovingEvent(p) ==
    LET first == CHOOSE i \in DOMAIN CatOrder :
                    /\ Present(p, CatOrder[i])
                    /\ \A j \in 1..(i - 1) : ~Present(p, CatOrder[j])
    IN  p[CatOrder[first]].originalEvent

extendEvents(dest, src) ==
    [c \in Categories |-> IF Present(src, c) THEN src[c] ELSE dest[c]]

extendDeactivated(dest, src) ==
    [h \in HandlerNames |-> IF src[h] # Absent THEN src[h] ELSE dest[h]]

\* one call on the host (map.fire, map.easeTo, map.resetNorth, map._stop(true),
\* map._update, map._requestRenderFrame, cameraAnimation(map))
Call(type, cat, ev, arg) == [type |-> type, cat |-> cat, ev |-> ev, arg |-> arg]

\* _fireEvent(type, e)
fireEvent(type, cat, e) == Call(type, cat, e, Undef)

\* ------------------------------------------------ CameraTransform (map.transform)
\* Screen points are pixels; the viewport is 2*PanStep wide and high.  World
\* locations are pixels at zoom MaxZoom on a world that wraps around.  The
\* bearing is counted in quarter turns and wraps into -1..2.
QuarterTurns == 4
MaxZoom == 1         \* the zoom range is 0..MaxZoom
MaxPitch == 1        \* the pitch range is 0..MaxPitch
CenterPoint == <<PanStep, PanStep>>
WorldSize == 3 * PanStep

Scale(zoom) == 2 ^ (MaxZoom - zoom)
WrapWorld(p) == <<p[1] % WorldSize, p[2] % WorldSize>>
Rotate(bearing, v) ==
    CASE bearing % QuarterTurns = 0 -> v
      [] bearing % QuarterTurns = 1 -> <<-v[2], v[1]>>
      [] bearing % QuarterTurns = 2 -> <<-v[1], -v[2]>>
      [] bearing % QuarterTurns = 3 -> <<v[2], -v[1]>>
Tilt(pitch, v) == <<v[1], v[2] * (1 + pitch)>>

\* world offset of the screen point p from the world location of the centre
Unproject(tr, p) ==
    LET v == Rotate(tr.bearing, Tilt(tr.pitch, PointSub(p, CenterPoint)))
    IN  <<v[1] * Scale(tr.zoom), v[2] * Scale(tr.zoom)>>

pointLocation(tr, p) == WrapWorld(PointAdd(tr.center, Unproject(tr, p)))

setLocationAtPoint(tr, loc, p) ==
    [tr EXCEPT !.center = WrapWorld(PointSub(loc, Unproject(tr, p)))]

SetBearing(tr, b) ==
    [tr EXCEPT !.bearing = ((b + 1) % QuarterTurns) - 1]
SetPitch(tr, p) ==
    [tr EXCEPT !.pitch = IF p < 0 THEN 0 ELSE IF p > MaxPitch THEN MaxPitch ELSE p]
SetZoom(tr, z) ==
    [tr EXCEPT !.zoom = IF z < 0 THEN 0 ELSE IF z > MaxZoom THEN MaxZoom ELSE z]

InitTransform == [bearing |-> 0, pitch |-> 0, zoom |-> 0, center |-> <<0, 0>>]

\* ------------------------------------------------------------ HandlerInertia
\* A sample is the combined delta of one flush.  The samples held are those
\* younger than the recency window: the action Elapse removes the others.
Sample(combined) ==
    [pan |-> IF combined.panDelta = Undef THEN <<0, 0>> ELSE combined.panDelta,
     zoom |-> Num(combined.zoomDelta),
     bearing |-> Num(combined.bearingDelta),
     pitch |-> Num(combined.pitchDelta)]

inertiaRecord(samples, combined) ==
    LET buf == Append(samples, Sample(combined))
    IN  IF Len(buf) > MaxSamples THEN Tail(buf) ELSE buf

inertiaClear == <<>>

RECURSIVE SumSamples(_, _)
SumSamples(samples, f) ==
    IF samples = <<>> THEN IF f = "pan" THEN <<0, 0>> ELSE 0
    ELSE IF f = "pan"
         THEN PointAdd(Head(samples).pan, SumSamples(Tail(samples), f))
         ELSE Head(samples)[f] + SumSamples(Tail(samples), f)

\* the deceleration target: <<>> when the estimated velocity is below the
\* threshold in every property, else <<target>>
\* the deceleration target for the summed deltas of the samples held: <<>>
\* when the estimated velocity is below the threshold in every property, else
\* <<target>>
MinVelocity == 0
EaseTarget(pan, zoom, bearing, pitch, tr) ==
    IF Mag2(pan) <= MinVelocity /\ Abs(zoom) <= MinVelocity
       /\ Abs(bearing) <= MinVelocity /\ Abs(pitch) <= MinVelocity
    THEN Undef
    ELSE <<[offset |-> IF Mag2(pan) > MinVelocity THEN pan ELSE Undef,
            zoom |-> IF Abs(zoom) > MinVelocity THEN <<tr.zoom + zoom>> ELSE Undef,
            bearing |-> IF Abs(bearing) > MinVelocity
                        THEN <<tr.bearing + bearing>> ELSE Undef,
            pitch |-> IF Abs(pitch) > MinVelocity THEN <<tr.pitch + pitch>> ELSE Undef]>>

onMoveEnd(samples, tr) ==
    EaseTarget(SumSamples(samples, "pan"), SumSamples(samples, "zoom"),
               SumSamples(samples, "bearing"), SumSamples(samples, "pitch"), tr)

\* ------------------------------------------------------------ manager state
\* what the dispatches since the queue was last emptied have contributed
EmptyQueued == [pan |-> <<0, 0>>, zoom |-> 0, bearing |-> 0, pitch |-> 0, pans |-> 0]

\* The sets of handlers that the options of the constructor (lines 228-232)
\* and the application's calls of enable() and disable() leave enabled: one
\* gesture handler alone, mousePan with the keyboard, and mousePan with
\* scrollZoom, which may be active together.
EnabledAlone ==
    {{"mouseRotate"}, {"mousePitch"}, {"scrollZoom"}, {"mousePan", "keyboard"}}

EnabledTogether == {{"mousePan", "scrollZoom"}, {"mousePan", "keyboard"}}

\* the locals of _processInputEvent when no dispatch has run: lines 288-290, 318
NoDispatch ==
    [type |-> "",
     result |-> [EmptyResult EXCEPT !.needsRenderFrame = <<FALSE>>],
     events |-> NoEvents,
     deactivated |-> NoDeactivated]

\* One record holds the fields of the HandlerManager, the state of its
\* collaborators (handlers, transform, inertia, the host's frame callbacks)
\* and what the operation in progress has done so far: the calls made on the
\* host (log), the handlers reset and invoked, the deltas written to the
\* transform (applied), the locals of its dispatch (last).
InitState(enabled) ==
    [hEnabled |-> [h \in HandlerNames |-> h \in enabled],
     hActive |-> [h \in HandlerNames |-> FALSE],
     changes |-> <<>>,
     previousActiveHandlers |-> {},
     eventsInProgress |-> NoEvents,
     frameId |-> FALSE,
     updatingCamera |-> FALSE,
     bearingChanged |-> FALSE,
     inertia |-> inertiaClear,
     tr |-> InitTransform,
     frames |-> 0,
     log |-> <<>>,
     resets |-> {},
     invoked |-> {},
     applied |-> <<>>,
     queued |-> EmptyQueued,
     last |-> NoDispatch]

Log(s, call) == [s EXCEPT !.log = Append(@, call)]
LogAll(s, calls) == [s EXCEPT !.log = @ \o calls]

\* handler.reset(): "must reset everything to it's original state"
reset(s, h) == [s EXCEPT !.hActive[h] = FALSE, !.resets = @ \cup {h}]

RECURSIVE resetAll(_, _)
resetAll(s, i) ==
    IF i > Len(Handlers) THEN s ELSE resetAll(reset(s, Handlers[i]), i + 1)

\* this._changes = []
clearChanges(s) == [s EXCEPT !.changes = <<>>, !.queued = EmptyQueued]

\* ------------------------------------------------------------- _fireEvents
\* line 467
shouldSnapToNorthLoose(bearing) ==
    bearing # 0 /\ -bearingSnap <= bearing /\ bearing <= bearingSnap

shouldSnapToNorth(bearing) ==
    bearing # 0 /\ -bearingSnap < bearing /\ bearing < bearingSnap

\* line 428
becomesMovingAlways(wasMoving, nowMoving) == nowMoving

becomesMoving(wasMoving, nowMoving) == ~wasMoving /\ nowMoving

\* line 434
isStartAlways(eventsInProgress, eventName) == TRUE

isStart(eventsInProgress, eventName) == ~Present(eventsInProgress, eventName)

\* the categories of newEventsInProgress, in the order they are visited
NewCats(newEventsInProgress) ==
    SelectSeq(CatOrder, LAMBDA c : Present(newEventsInProgress, c))

\* lines 432-439
StartCalls(new, newCats) ==
    [i \in 1..Len(newCats) |->
        fireEvent("start", newCats[i], new[newCats[i]].originalEvent)]

\* lines 447-450
ChangeCalls(new, newCats) ==
    [i \in 1..Len(newCats) |->
        fireEvent("change", newCats[i], new[newCats[i]].originalEvent)]

\* lines 425-450: the notifications fired before the end loop
BeginCallsMoveFirst(old, new) ==
    (IF isMoving(new) THEN <<fireEvent("move", "", MovingEvent(new))>> ELSE <<>>)
    \o (IF becomesMoving(isMoving(old), isMoving(new))
        THEN <<fireEvent("movestart", "", MovingEvent(new))>> ELSE <<>>)
    \o StartCalls(new,
                  SelectSeq(NewCats(new), LAMBDA c : isStart(old, c)))
    \o ChangeCalls(new, NewCats(new))

BeginCalls(old, new) ==
    (IF becomesMoving(isMoving(old), isMoving(new))
     THEN <<fireEvent("movestart", "", MovingEvent(new))>> ELSE <<>>)
    \o StartCalls(new,
               SelectSeq(NewCats(new), LAMBDA c : isStart(old, c)))
    \o (IF isMoving(new) THEN <<fireEvent("move", "", MovingEvent(new))>> ELSE <<>>)
    \o ChangeCalls(new, NewCats(new))

\* line 455, for the category c of the events in progress p
Ended(hActive, p, c) == Present(p, c) /\ ~hActive[p[c].handlerName]

\* line 457
EndEventOriginating(p, deactivatedHandlers, c) == p[c].originalEvent

EndEvent(p, deactivatedHandlers, c) ==
    IF deactivatedHandlers[p[c].handlerName] \notin {Absent, NoEvent}
    THEN deactivatedHandlers[p[c].handlerName]
    ELSE p[c].originalEvent

EndCats(hActive, p) == SelectSeq(CatOrder, LAMBDA c : Ended(hActive, p, c))

\* lines 453-460: the end notifications, and the events left in progress
EndCalls(p, deactivatedHandlers, endCats) ==
    [i \in 1..Len(endCats) |->
        fireEvent("end", endCats[i], EndEvent(p, deactivatedHandlers, endCats[i]))]

LastEndEvent(p, deactivatedHandlers, endCats) ==
    IF endCats = <<>> THEN NoEvent
    ELSE EndEvent(p, deactivatedHandlers, endCats[Len(endCats)])

RemainingAll(hActive, p) == p

Remaining(hActive, p) ==
    [c \in Categories |-> IF Ended(hActive, p, c) THEN NoOwner ELSE p[c]]

RECURSIVE stop(_)
RECURSIVE fireEvents(_, _, _)

\* map.easeTo and map.resetNorth stop the animation in progress, which calls
\* back into stop()
easeTo(s, target, ev) == stop(Log(s, Call("easeTo", "", ev, <<target>>)))
resetNorth(s) == stop(Log(s, Call("resetNorth", "", NoEvent, Undef)))

\* lines 470-472
SnapTarget(target, mapBearing) ==
    IF shouldSnapToNorth(IF Truthy(target.bearing) THEN target.bearing[1]
                         ELSE mapBearing)
    THEN [target EXCEPT !.bearing = <<0>>]
    ELSE target

\* lines 476-478
SnapMapIfRotated(s) ==
    IF s.bearingChanged /\ shouldSnapToNorth(s.tr.bearing) THEN resetNorth(s) ELSE s

SnapMap(s) == IF shouldSnapToNorth(s.tr.bearing) THEN resetNorth(s) ELSE s

\* lines 469-479
EaseOrEnd(s, inertialEase, originalEndEvent) ==
    IF inertialEase # Undef
    THEN easeTo(Log(s, Call("_onMoveEnd", "", NoEvent, inertialEase)),
                SnapTarget(inertialEase[1], s.tr.bearing), originalEndEvent)
    ELSE SnapMap(LogAll(s, <<Call("_onMoveEnd", "", NoEvent, Undef),
                            fireEvent("moveend", "", originalEndEvent)>>))

\* lines 480-481
EndGuard(s) == [s EXCEPT !.bearingChanged = FALSE, !.updatingCamera = FALSE]

\* lines 464-481, entered when the last category has ended
GestureEnd(s, originalEndEvent) ==
    EndGuard(EaseOrEnd([s EXCEPT !.updatingCamera = TRUE],
                       onMoveEnd(s.inertia, s.tr), originalEndEvent))

\* lines 462-482
AfterEnds(s, moved, originalEndEvent) ==
    IF moved /\ ~isMoving(s.eventsInProgress)
    THEN GestureEnd(s, originalEndEvent)
    ELSE s

\* lines 425-460, p being this._eventsInProgress after the loop of line 432
Notify(s, new, deactivatedHandlers, p, endCats) ==
    LogAll([s EXCEPT !.eventsInProgress = Remaining(s.hActive, p),
                     !.bearingChanged = IF Present(new, "rotate") THEN TRUE ELSE @],
           BeginCalls(s.eventsInProgress, new)
           \o EndCalls(p, deactivatedHandlers, endCats))

FireMerged(s, new, deactivatedHandlers, p, endCats) ==
    AfterEnds(Notify(s, new, deactivatedHandlers, p, endCats),
              isMoving(s.eventsInProgress) \/ isMoving(new),
              LastEndEvent(p, deactivatedHandlers, endCats))

FireOn(s, new, deactivatedHandlers, p) ==
    FireMerged(s, new, deactivatedHandlers, p, EndCats(s.hActive, p))

\* lines 423-484
fireEvents(s, newEventsInProgress, deactivatedHandlers) ==
    FireOn(s, newEventsInProgress, deactivatedHandlers,
           extendEvents(s.eventsInProgress, newEventsInProgress))

\* lines 247-249
stopNowKeepQueue(s) ==
    fireEvents([s EXCEPT !.inertia = inertiaClear], NoEvents, NoDeactivated)

stopNowKeepInertia(s) ==
    clearChanges(fireEvents(s, NoEvents, NoDeactivated))

stopNow(s) ==
    clearChanges(fireEvents([s EXCEPT !.inertia = inertiaClear],
                            NoEvents, NoDeactivated))

\* what a call of stop() can change
Digest(s) ==
    [hActive |-> s.hActive, resets |-> s.resets, inertia |-> s.inertia,
     changes |-> s.changes, eventsInProgress |-> s.eventsInProgress,
     fired |-> Len(s.log)]

\* stop() returns: the call is recorded with the guard it found, whether it
\* changed anything, and what it left behind
stopped(before, after) ==
    Log(after, Call("stop", "", NoEvent,
                    <<[guarded |-> before.updatingCamera,
                       unchanged |-> Digest(before) = Digest(after),
                       resets |-> after.resets,
                       active |-> {h \in HandlerNames : after.hActive[h]},
                       queue |-> Len(after.changes),
                       samples |-> Len(after.inertia),
                       owners |-> {after.eventsInProgress[c].handlerName :
                                       c \in {c \in Categories :
                                                 Present(after.eventsInProgress, c)}}]>>))

\* lines 240-250
stopUnguarded(s) == stopped(s, stopNow(resetAll(s, 1)))

stop(s) ==
    stopped(s, IF s.updatingCamera THEN s ELSE stopNow(resetAll(s, 1)))

\* ----------------------------------------------------- _triggerRenderFrame
\* lines 490-498; the callback itself is the action Frame
triggerRenderFrameAgain(s) ==
    Log([s EXCEPT !.frameId = TRUE, !.frames = @ + 1],
        Call("_requestRenderFrame", "", NoEvent, Undef))

triggerRenderFrame(s) ==
    IF s.frameId = FALSE
    THEN Log([s EXCEPT !.frameId = TRUE, !.frames = @ + 1],
             Call("_requestRenderFrame", "", NoEvent, Undef))
    ELSE s

\* lines 346-367; returns the pair <<mergedHandlerResult, eventsInProgress>>
mergeHandlerResultNonZero(mergedHandlerResult, eventsInProgress, handlerResult, name, e) ==
    IF handlerResult = Undef THEN <<mergedHandlerResult, eventsInProgress>>
    ELSE LET r == handlerResult[1]
             eventData == [handlerName |-> name,
                           originalEvent |-> IF r.originalEvent # Undef
                                             THEN r.originalEvent[1] ELSE e]
         IN  <<extend(mergedHandlerResult, r),
               [c \in Categories |->
                    IF \/ c = "zoom" /\ Truthy(r.zoomDelta)
                       \/ c = "drag" /\ r.panDelta # Undef
                       \/ c = "pitch" /\ Truthy(r.pitchDelta)
                       \/ c = "rotate" /\ Truthy(r.bearingDelta)
                    THEN eventData ELSE eventsInProgress[c]]>>

mergeHandlerResult(mergedHandlerResult, eventsInProgress, handlerResult, name, e) ==
    IF handlerResult = Undef THEN <<mergedHandlerResult, eventsInProgress>>
    ELSE LET r == handlerResult[1]
             eventData == [handlerName |-> name,
                           originalEvent |-> IF r.originalEvent # Undef
                                             THEN r.originalEvent[1] ELSE e]
         IN  <<extend(mergedHandlerResult, r),
               [c \in Categories |->
                    IF \/ c = "zoom" /\ r.zoomDelta # Undef
                       \/ c = "drag" /\ r.panDelta # Undef
                       \/ c = "pitch" /\ r.pitchDelta # Undef
                       \/ c = "rotate" /\ r.bearingDelta # Undef
                    THEN eventData ELSE eventsInProgress[c]]>>

\* --------------------------------------------------------------- the handlers
\* The event types the model dispatches and, for each, the handlers that
\* implement the optional method of that name (lines 66-82).
InputEventTypes == {"mousemove", "mouseup", "wheel", "keydown"}

Declares(h, type) ==
    \/ type = "mousemove" /\ h \in {"mouseRotate", "mousePitch", "mousePan"}
    \/ type = "mouseup" /\ h \in {"mouseRotate", "mousePitch", "mousePan"}
    \/ type = "wheel" /\ h = "scrollZoom"
    \/ type = "renderFrame" /\ h = "scrollZoom"
    \/ type = "keydown" /\ h = "keyboard"

Anchor == <<2 * PanStep, 2 * PanStep>>

\* the HandlerResults a handler's method may return, besides undefined
Results(h) ==
    CASE h = "mouseRotate" ->
            {[EmptyResult EXCEPT !.bearingDelta = <<1>>]}
      [] h = "mousePitch" ->
            {[EmptyResult EXCEPT !.pitchDelta = <<1>>]}
      [] h = "mousePan" ->
            {[EmptyResult EXCEPT !.panDelta = <<PanStep, 0>>, !.around = Anchor]}
      [] h = "scrollZoom" ->
            {[EmptyResult EXCEPT !.zoomDelta = <<1>>, !.around = Anchor,
                                 !.noInertia = <<TRUE>>, !.needsRenderFrame = <<TRUE>>]}
      [] h = "keyboard" ->
            {[EmptyResult EXCEPT !.cameraAnimation = <<TRUE>>],
             [EmptyResult EXCEPT !.cameraAnimation = <<TRUE>>,
                                 !.bearingDelta = <<1>>]}

\* what one call of a handler's method does: the value it returns, whether
\* the handler reports isActive() afterwards, and whether the method called
\* stop() on the manager it holds (line 220) before it returned
NoOutcome == [data |-> Undef, active |-> FALSE, stops |-> FALSE]

Outcomes(h) ==
    [data : {Undef} \cup {<<r>> : r \in Results(h)},
     active : IF h = "keyboard" THEN {FALSE} ELSE BOOLEAN,
     stops : {FALSE}]

\* the answers to one event type: a released button ends the gesture of a
\* mouse handler, a handler in its original state has nothing to emit on a
\* tick, and the wheel method of scrollZoom may call back into the manager
OutcomesOn(h, type, isActive) ==
    CASE type = "mouseup" -> {NoOutcome}
      [] type = "renderFrame" -> IF isActive THEN Outcomes(h) ELSE {NoOutcome}
      [] type = "wheel" ->
            Outcomes(h) \cup {[o EXCEPT !.stops = TRUE] : o \in Outcomes(h)}
      [] OTHER -> Outcomes(h)


\* ------------------------------------------------------------------- flush
\* lines 412-414
turned(tr, r) ==
    IF Truthy(r.bearingDelta) THEN SetBearing(tr, tr.bearing + r.bearingDelta[1])
    ELSE tr

pitched(tr, r) ==
    IF Truthy(r.pitchDelta) THEN SetPitch(tr, tr.pitch + r.pitchDelta[1]) ELSE tr

zoomed(tr, r) ==
    IF Truthy(r.zoomDelta) THEN SetZoom(tr, tr.zoom + r.zoomDelta[1]) ELSE tr

mutated(tr, r) == zoomed(pitched(turned(tr, r), r), r)

\* lines 410-415: the transform after the combined deltas are applied around
\* the point `around`
moveCameraLate(tr, combinedResult, around) ==
    setLocationAtPoint(
        mutated(tr, combinedResult),
        pointLocation(mutated(tr, combinedResult),
                      IF combinedResult.panDelta # Undef
                      THEN PointSub(around, combinedResult.panDelta) ELSE around),
        around)

moveCameraForward(tr, combinedResult, around) ==
    setLocationAtPoint(
        mutated(tr, combinedResult),
        pointLocation(tr, IF combinedResult.panDelta # Undef
                          THEN PointAdd(around, combinedResult.panDelta) ELSE around),
        around)

moveCamera(tr, combinedResult, around) ==
    setLocationAtPoint(
        mutated(tr, combinedResult),
        pointLocation(tr, IF combinedResult.panDelta # Undef
                          THEN PointSub(around, combinedResult.panDelta) ELSE around),
        around)

\* line 418
recordInertiaAlways(s, combinedResult) ==
    [s EXCEPT !.inertia = inertiaRecord(@, combinedResult)]

recordInertia(s, combinedResult) ==
    IF ~IsTrue(combinedResult.noInertia)
    THEN [s EXCEPT !.inertia = inertiaRecord(@, combinedResult)]
    ELSE s

\* lines 401-410: the point the camera moves around
aroundOf(r) ==
    IF r.pinchAround # Undef
    THEN (IF IsPoint(r.pinchAround) THEN r.pinchAround ELSE CenterPoint)
    ELSE (IF IsPoint(r.around) THEN r.around ELSE CenterPoint)

\* lines 408-417
moveMap(s, combinedResult, around) ==
    [s EXCEPT !.tr = moveCamera(@, combinedResult, around),
              !.applied = Append(@, [result |-> combinedResult,
                                     around |-> around,
                                     expected |-> s.queued]),
              !.log = @ \o <<Call("_stop", "", NoEvent, <<s.updatingCamera>>),
                             Call("_update", "", NoEvent, Undef)>>]

\* lines 401-418
applyCombinedAlways(s, combinedResult) ==
    recordInertia(moveMap(s, combinedResult, aroundOf(combinedResult)),
                  combinedResult)

applyCombined(s, combinedResult) ==
    IF hasChange(combinedResult)
    THEN recordInertia(moveMap(s, combinedResult, aroundOf(combinedResult)),
                       combinedResult)
    ELSE s

\* lines 392-421
updateMapTransform(s, combinedResult, combinedEventsInProgress, deactivatedHandlers) ==
    fireEvents(applyCombined(s, combinedResult),
               combinedEventsInProgress, deactivatedHandlers)

\* lines 376-379: the deltas of one queued change added to the combined result
addDeltasLastWins(combined, change) ==
    [combined EXCEPT
        !.panDelta = IF change.panDelta # Undef THEN change.panDelta ELSE @,
        !.zoomDelta = IF Truthy(change.zoomDelta) THEN change.zoomDelta ELSE @,
        !.bearingDelta = IF Truthy(change.bearingDelta) THEN change.bearingDelta ELSE @,
        !.pitchDelta = IF Truthy(change.pitchDelta) THEN change.pitchDelta ELSE @]

addDeltas(combined, change) ==
    [combined EXCEPT
        !.panDelta = IF change.panDelta # Undef
                     THEN PointAdd(IF @ # Undef THEN @ ELSE <<0, 0>>, change.panDelta)
                     ELSE @,
        !.zoomDelta = IF Truthy(change.zoomDelta)
                      THEN <<Num(@) + change.zoomDelta[1]>> ELSE @,
        !.bearingDelta = IF Truthy(change.bearingDelta)
                         THEN <<Num(@) + change.bearingDelta[1]>> ELSE @,
        !.pitchDelta = IF Truthy(change.pitchDelta)
                       THEN <<Num(@) + change.pitchDelta[1]>> ELSE @]

\* lines 380-382
addAnchorsPointsOnly(combined, change) ==
    [combined EXCEPT
        !.around = IF IsPoint(change.around) THEN change.around ELSE @,
        !.pinchAround = IF IsPoint(change.pinchAround) THEN change.pinchAround ELSE @,
        !.noInertia = IF IsTrue(change.noInertia) THEN change.noInertia ELSE @]

addAnchors(combined, change) ==
    [combined EXCEPT
        !.around = IF change.around # Undef THEN change.around ELSE @,
        !.pinchAround = IF change.pinchAround # Undef THEN change.pinchAround ELSE @,
        !.noInertia = IF IsTrue(change.noInertia) THEN change.noInertia ELSE @]

\* lines 374-386: the loop over the changes from the i-th on
RECURSIVE Combine(_, _, _)
Combine(changes, i, acc) ==
    IF i > Len(changes) THEN acc
    ELSE Combine(changes, i + 1,
                 <<addAnchors(addDeltas(acc[1], changes[i][1]), changes[i][1]),
                   extendEvents(acc[2], changes[i][2]),
                   extendDeactivated(acc[3], changes[i][3])>>)

\* lines 388-389
applyAllKeepQueue(s, c) == updateMapTransform(s, c[1], c[2], c[3])

applyAll(s, c) == clearChanges(updateMapTransform(s, c[1], c[2], c[3]))

\* lines 369-390
applyChanges(s) ==
    applyAll(s, Combine(s.changes, 1, <<EmptyResult, NoEvents, NoDeactivated>>))

\* ------------------------------------------------------------------ dispatch
\* every way the handlers can answer one event of the given type: a sequence
\* aligned with Handlers
OutcomesFor(s, h, type) ==
    IF s.hEnabled[h] /\ Declares(h, type)
    THEN OutcomesOn(h, type, s.hActive[h])
    ELSE {NoOutcome}

RECURSIVE OutcomeSeqs(_, _, _)
OutcomeSeqs(s, type, i) ==
    IF i = 0 THEN {<<>>}
    ELSE {Append(q, o) : q \in OutcomeSeqs(s, type, i - 1),
                         o \in OutcomesFor(s, Handlers[i], type)}

\* lines 305-309: the handler's method is called and answers with `out`
called(s, handlerName, out) ==
    IF out.stops
    THEN stop([s EXCEPT !.hActive[handlerName] = out.active,
                        !.invoked = @ \cup {handlerName}])
    ELSE [s EXCEPT !.hActive[handlerName] = out.active,
                   !.invoked = @ \cup {handlerName}]

invoke(s, handlerName, out) ==
    IF out.data # Undef /\ IsTrue(out.data[1].needsRenderFrame)
    THEN triggerRenderFrame(called(s, handlerName, out))
    ELSE called(s, handlerName, out)

\* lines 299-311 for one enabled handler: the pair <<state, data>>
callHandlerBlockedToo(s, handlerName, type, out, blocked) ==
    IF Declares(handlerName, type)
    THEN <<invoke(s, handlerName, out), out.data>>
    ELSE <<s, Undef>>

callHandler(s, handlerName, type, out, blocked) ==
    IF blocked THEN <<reset(s, handlerName), Undef>>
    ELSE IF Declares(handlerName, type)
    THEN <<invoke(s, handlerName, out), out.data>>
    ELSE <<s, Undef>>

\* lines 306 and 313-315: the locals after the handler has answered
merged(acc, m, handlerName, isActive) ==
    [mergedHandlerResult |-> m[1],
     eventsInProgress |-> m[2],
     activeHandlers |-> IF isActive THEN acc.activeHandlers \cup {handlerName}
                        ELSE acc.activeHandlers]

afterCall(acc, sd, handlerName, inputEvent) ==
    merged(acc,
           mergeHandlerResult(acc.mergedHandlerResult, acc.eventsInProgress,
                              sd[2], handlerName, inputEvent),
           handlerName,
           sd[2] # Undef \/ sd[1].hActive[handlerName])

\* lines 296-316: the loop over the handlers from the i-th on; acc holds the
\* locals mergedHandlerResult, eventsInProgress and activeHandlers
RECURSIVE HandlerLoopTo(_, _, _, _, _, _)
RECURSIVE HandlerLoopOn(_, _, _, _, _, _)

\* the iterations i..n of the loop
HandlerLoopToDisabledToo(s, acc, e, outcome, i, n) ==
    IF i > n THEN <<s, acc>>
    ELSE HandlerLoopOn(
            callHandler(s, Handlers[i], e.type, outcome[i],
                        blockedByActive(acc.activeHandlers, AllowedOf(Handlers[i]),
                                        Handlers[i])),
            acc, e, outcome, i, n)

HandlerLoopToAnyActive(s, acc, e, outcome, i, n) ==
    IF i > n THEN <<s, acc>>
    ELSE IF ~s.hEnabled[Handlers[i]] THEN HandlerLoopTo(s, acc, e, outcome, i + 1, n)
    ELSE HandlerLoopOn(
            callHandler(s, Handlers[i], e.type, outcome[i],
                        blockedByActive(acc.activeHandlers
                                            \cup {g \in HandlerNames : s.hActive[g]},
                                        AllowedOf(Handlers[i]), Handlers[i])),
            acc, e, outcome, i, n)

HandlerLoopTo(s, acc, e, outcome, i, n) ==
    IF i > n THEN <<s, acc>>
    ELSE IF ~s.hEnabled[Handlers[i]] THEN HandlerLoopTo(s, acc, e, outcome, i + 1, n)
    ELSE HandlerLoopOn(
            callHandler(s, Handlers[i], e.type, outcome[i],
                        blockedByActive(acc.activeHandlers, AllowedOf(Handlers[i]),
                                        Handlers[i])),
            acc, e, outcome, i, n)

HandlerLoopOn(sd, acc, e, outcome, i, n) ==
    HandlerLoopTo(sd[1], afterCall(acc, sd, Handlers[i], e.inputEvent), e, outcome,
                  i + 1, n)

HandlerLoop(s, acc, e, outcome, i) ==
    HandlerLoopTo(s, acc, e, outcome, i, Len(Handlers))

\* what the merged result of one dispatch adds to the sums of the queue
AddQueued(q, r) ==
    [pan |-> IF r.panDelta = Undef THEN q.pan ELSE PointAdd(q.pan, r.panDelta),
     zoom |-> q.zoom + Num(r.zoomDelta),
     bearing |-> q.bearing + Num(r.bearingDelta),
     pitch |-> q.pitch + Num(r.pitchDelta),
     pans |-> IF r.panDelta = <<PanStep, 0>> THEN q.pans + 1 ELSE q.pans]

\* lines 318-323
deactivated(previous, activeHandlers, inputEvent) ==
    [h \in HandlerNames |->
        IF h \in previous /\ h \notin activeHandlers THEN inputEvent ELSE Absent]

\* lines 327-328
queueChangeApplied(s, change) ==
    applyChanges([s EXCEPT !.changes = Append(@, change)])

queueChange(s, change) ==
    triggerRenderFrame([s EXCEPT !.changes = Append(@, change)])

\* lines 324-329
queueAlways(s, acc, deactivatedHandlers) ==
    queueChange([s EXCEPT !.previousActiveHandlers = acc.activeHandlers,
                          !.queued = AddQueued(@, acc.mergedHandlerResult)],
                <<acc.mergedHandlerResult, acc.eventsInProgress,
                  deactivatedHandlers>>)

queueIfChangedKeepSet(s, acc, deactivatedHandlers) ==
    IF deactivatedHandlers # NoDeactivated \/ hasChange(acc.mergedHandlerResult)
    THEN queueChange([s EXCEPT !.previousActiveHandlers = acc.activeHandlers,
                               !.queued = AddQueued(@, acc.mergedHandlerResult)],
                     <<acc.mergedHandlerResult, acc.eventsInProgress,
                       deactivatedHandlers>>)
    ELSE [s EXCEPT !.queued = AddQueued(@, acc.mergedHandlerResult)]

queueIfChanged(s, acc, deactivatedHandlers) ==
    IF deactivatedHandlers # NoDeactivated \/ hasChange(acc.mergedHandlerResult)
    THEN queueChange([s EXCEPT !.previousActiveHandlers = acc.activeHandlers,
                               !.queued = AddQueued(@, acc.mergedHandlerResult)],
                     <<acc.mergedHandlerResult, acc.eventsInProgress,
                       deactivatedHandlers>>)
    ELSE [s EXCEPT !.previousActiveHandlers = acc.activeHandlers,
                   !.queued = AddQueued(@, acc.mergedHandlerResult)]

\* lines 331-335
stopAnimationIfChanged(s, acc) ==
    IF hasChange(acc.mergedHandlerResult)
    THEN [s EXCEPT !.log = Append(@, Call("_stop", "", NoEvent, <<s.updatingCamera>>)),
                   !.updatingCamera = FALSE]
    ELSE [s EXCEPT !.updatingCamera = FALSE]

stopAnimation(s, acc) ==
    IF acc.activeHandlers # {} \/ hasChange(acc.mergedHandlerResult)
    THEN [s EXCEPT !.log = Append(@, Call("_stop", "", NoEvent, <<s.updatingCamera>>)),
                   !.updatingCamera = FALSE]
    ELSE [s EXCEPT !.updatingCamera = FALSE]

\* lines 337-343
animateKeepQueue(s, cameraAnimation) ==
    IF cameraAnimation # Undef
    THEN Log(stopNowKeepQueue(s), Call("cameraAnimation", "", NoEvent, Undef))
    ELSE s

animate(s, cameraAnimation) ==
    IF cameraAnimation # Undef
    THEN Log(stopNow(s), Call("cameraAnimation", "", NoEvent, Undef))
    ELSE s

\* lines 318-343
afterLoop(s, acc, deactivatedHandlers) ==
    animate(stopAnimation(queueIfChanged(s, acc, deactivatedHandlers), acc),
            acc.mergedHandlerResult.cameraAnimation)

\* the locals of the dispatch, kept for the record
noted(s, type, acc, deactivatedHandlers) ==
    [s EXCEPT !.last = [type |-> type,
                        result |-> acc.mergedHandlerResult,
                        events |-> acc.eventsInProgress,
                        deactivated |-> deactivatedHandlers]]

finishWith(s, type, acc, deactivatedHandlers) ==
    afterLoop(noted(s, type, acc, deactivatedHandlers), acc, deactivatedHandlers)

finish(previous, loop, e) ==
    finishWith(loop[1], e.type, loop[2],
               deactivated(previous, loop[2].activeHandlers, e.inputEvent))

\* lines 276-344; e is [type, inputEvent]
processInputEvent(s, e, outcome) ==
    finish(s.previousActiveHandlers,
           HandlerLoop([s EXCEPT !.updatingCamera = TRUE],
                       [mergedHandlerResult |->
                            [EmptyResult EXCEPT !.needsRenderFrame = <<FALSE>>],
                        eventsInProgress |-> NoEvents,
                        activeHandlers |-> {}],
                       e, outcome, 1),
           e)

\* line 305 when the method of the handler throws: the handler is left in the
\* state out.active, the exception leaves _processInputEvent
thrownBy(s, handlerName, out) ==
    Log(called(s, handlerName, out), Call("throw", "", NoEvent, <<handlerName>>))

\* lines 297-305 for the k-th handler, whose method throws if it is called
thrownAt(loop, type, out, handlerName) ==
    IF /\ loop[1].hEnabled[handlerName]
       /\ ~blockedByActive(loop[2].activeHandlers, AllowedOf(handlerName), handlerName)
       /\ Declares(handlerName, type)
    THEN thrownBy(loop[1], handlerName, out)
    ELSE loop[1]

\* lines 276-305 when the method of the k-th handler throws; nothing catches
\* the exception: the mutant does, and goes on with the dispatch
processThrowingCaught(s, e, outcome, k) ==
    thrownBy(processInputEvent(s, e, outcome), Handlers[k], outcome[k])

processThrowing(s, e, outcome, k) ==
    thrownAt(HandlerLoopTo([s EXCEPT !.updatingCamera = TRUE],
                           [mergedHandlerResult |->
                                [EmptyResult EXCEPT !.needsRenderFrame = <<FALSE>>],
                            eventsInProgress |-> NoEvents,
                            activeHandlers |-> {}],
                           e, outcome, 1, k - 1),
             e.type, outcome[k], Handlers[k])

\* lines 276-279 for an event without timeStamp: the assertion fails
processUntimedLate(s) ==
    [s EXCEPT !.updatingCamera = TRUE, !.previousActiveHandlers = {}]

processUntimed(s) == [s EXCEPT !.updatingCamera = TRUE]

\* ------------------------------------------------------- notification record
\* What the listeners of the map have seen so far: whether a movestart is
\* not yet answered by a moveend or an easeTo, the categories whose start is
\* not yet answered by an end, and whether the order of the notifications has
\* been the expected one up to now.
InitSeen == [moving |-> FALSE, open |-> {}, moveOrder |-> TRUE, catOrder |-> TRUE]

See(seen, call) ==
    CASE call.type = "movestart" ->
            [seen EXCEPT !.moving = TRUE, !.moveOrder = @ /\ ~seen.moving]
      [] call.type \in {"moveend", "easeTo"} ->
            [seen EXCEPT !.moving = FALSE, !.moveOrder = @ /\ seen.moving]
      [] call.type = "start" ->
            [seen EXCEPT !.open = @ \cup {call.cat},
                         !.catOrder = @ /\ call.cat \notin seen.open]
      [] call.type = "change" ->
            [seen EXCEPT !.catOrder = @ /\ call.cat \in seen.open]
      [] call.type = "end" ->
            [seen EXCEPT !.open = @ \ {call.cat},
                         !.catOrder = @ /\ call.cat \in seen.open]
      [] OTHER -> seen

RECURSIVE SeeAll(_, _, _)
SeeAll(seen, calls, i) ==
    IF i > Len(calls) THEN seen ELSE SeeAll(See(seen, calls[i]), calls, i + 1)

HasCall(calls, type) == \E i \in DOMAIN calls : calls[i].type = type
CountCalls(calls, type) == Cardinality({i \in DOMAIN calls : calls[i].type = type})

\* ------------------------------------------------------------ specification
VARIABLES hEnabled, hActive, changes, previousActiveHandlers, eventsInProgress,
          frameId, updatingCamera, bearingChanged, inertia, tr, frames,
          log, resets, invoked, applied, queued, last, seen, op

vars == <<hEnabled, hActive, changes, previousActiveHandlers, eventsInProgress,
          frameId, updatingCamera, bearingChanged, inertia, tr, frames,
          log, resets, invoked, applied, queued, last, seen, op>>

Cur ==
    [hEnabled |-> hEnabled, hActive |-> hActive, changes |-> changes,
     previousActiveHandlers |-> previousActiveHandlers,
     eventsInProgress |-> eventsInProgress, frameId |-> frameId,
     updatingCamera |-> updatingCamera, bearingChanged |-> bearingChanged,
     inertia |-> inertia, tr |-> tr, frames |-> frames, log |-> log,
     resets |-> resets, invoked |-> invoked, applied |-> applied,
     queued |-> queued, last |-> last]

\* the state in which an operation called by the host starts
Begin ==
    [Cur EXCEPT !.log = <<>>, !.resets = {}, !.invoked = {}, !.applied = <<>>,
                !.last = NoDispatch]

Becomes(s, name) ==
    /\ hEnabled' = s.hEnabled
    /\ hActive' = s.hActive
    /\ changes' = s.changes
    /\ previousActiveHandlers' = s.previousActiveHandlers
    /\ eventsInProgress' = s.eventsInProgress
    /\ frameId' = s.frameId
    /\ updatingCamera' = s.updatingCamera
    /\ bearingChanged' = s.bearingChanged
    /\ inertia' = s.inertia
    /\ tr' = s.tr
    /\ frames' = s.frames
    /\ log' = s.log
    /\ resets' = s.resets
    /\ invoked' = s.invoked
    /\ applied' = s.applied
    /\ queued' = s.queued
    /\ last' = s.last
    /\ seen' = SeeAll(seen, s.log, 1)
    /\ op' = name

InitWith(enabled) ==
    /\ hEnabled = InitState(enabled).hEnabled
    /\ hActive = InitState(enabled).hActive
    /\ changes = InitState(enabled).changes
    /\ previousActiveHandlers = InitState(enabled).previousActiveHandlers
    /\ eventsInProgress = InitState(enabled).eventsInProgress
    /\ frameId = InitState(enabled).frameId
    /\ updatingCamera = InitState(enabled).updatingCamera
    /\ bearingChanged = InitState(enabled).bearingChanged
    /\ inertia = InitState(enabled).inertia
    /\ tr = InitState(enabled).tr
    /\ frames = InitState(enabled).frames
    /\ log = InitState(enabled).log
    /\ resets = InitState(enabled).resets
    /\ invoked = InitState(enabled).invoked
    /\ applied = InitState(enabled).applied
    /\ queued = InitState(enabled).queued
    /\ last = InitState(enabled).last
    /\ seen = InitSeen
    /\ op = "init"

Init == \E enabled \in EnabledAlone : InitWith(enabled)

InitTogether == \E enabled \in EnabledTogether : InitWith(enabled)

\* an outcome is consumed only by a handler whose method is called
Consumed(s, outcome) ==
    \A i \in DOMAIN Handlers :
        Handlers[i] \notin s.invoked => outcome[i] = NoOutcome

\* a DOM listener of _addListener runs: _processInputEvent(e, name)
Dispatch ==
    \E type \in InputEventTypes :
        \E outcome \in OutcomeSeqs(Cur, type, Len(Handlers)) :
            \E s \in {processInputEvent(Begin, [type |-> type, inputEvent |-> type],
                                        outcome)} :
                /\ Consumed(s, outcome)
                /\ Len(s.changes) <= MaxQueue
                /\ Becomes(s, "dispatch")

\* the host runs the callback passed to _requestRenderFrame (lines 492-496)
FrameTokenLate ==
    /\ frames > 0
    /\ \E outcome \in OutcomeSeqs(Cur, "renderFrame", Len(Handlers)) :
            \E s \in {processInputEvent([Begin EXCEPT !.frames = @ - 1],
                                        [type |-> "renderFrame",
                                         inputEvent |-> NoEvent], outcome)} :
                /\ Consumed(s, outcome)
                /\ Becomes([applyChanges(s) EXCEPT !.frameId = FALSE], "frame")

Frame ==
    /\ frames > 0
    /\ \E outcome \in OutcomeSeqs(Cur, "renderFrame", Len(Handlers)) :
            \E s \in {processInputEvent([Begin EXCEPT !.frames = @ - 1,
                                                      !.frameId = FALSE],
                                        [type |-> "renderFrame",
                                         inputEvent |-> NoEvent], outcome)} :
                /\ Consumed(s, outcome)
                /\ Becomes(applyChanges(s), "frame")

\* the host calls stop(): window blur, or the camera stopping an animation
Stop == \E s \in {stop(Begin)} : Becomes(s, "stop")

\* more wall-clock time than the recency window of the inertia passes
Elapse ==
    /\ inertia # <<>>
    /\ Becomes([Begin EXCEPT !.inertia = <<>>], "elapse")

\* a DOM listener runs with an event that carries no timeStamp
DispatchUntimed == \E s \in {processUntimed(Begin)} : Becomes(s, "assert")

\* every event carries its timeStamp
NextTimed == Dispatch \/ Frame \/ Stop \/ Elapse

Next == NextTimed \/ DispatchUntimed

Spec == Init /\ [][Next]_vars

\* the same manager fed with well-formed events only
SpecTimed == Init /\ [][NextTimed]_vars

\* A frame callback is due and the step is the one that runs it: Frame is the
\* only action that leaves op = "frame".  The callback uses up one request
\* and makes at most one (lines 491-493), and assigns the active set of its
\* tick (line 324).
FrameRuns ==
    /\ frames > 0
    /\ op' = "frame"
    /\ frames' \in {frames - 1, frames}
    /\ previousActiveHandlers' \in SUBSET HandlerNames

\* The host runs every frame callback it has been asked for
\* (_requestRenderFrame, line 492): a requested frame does not wait for ever.
\* The fairness is stated on the fields by which a frame that runs can be
\* told from one that does not.
SpecFrames ==
    Init /\ [][NextTimed]_vars /\ WF_<<frames, previousActiveHandlers>>(FrameRuns)

\* the handlers that may be active together, fed with well-formed events
SpecTogether == InitTogether /\ [][NextTimed]_vars

\* the handlers up to the thrower have consumed their outcomes, and the
\* thrower returns no data
ConsumedUpTo(s, outcome, k) ==
    /\ Consumed(s, outcome)
    /\ outcome[k].data = Undef

\* a DOM listener runs and the method of the k-th handler throws
DispatchThrow ==
    \E type \in InputEventTypes :
        \E outcome \in OutcomeSeqs(Cur, type, Len(Handlers)) :
            \E k \in DOMAIN Handlers :
                \E s \in {processThrowing(Begin, [type |-> type, inputEvent |-> type],
                                           outcome, k)} :
                    /\ HasCall(s.log, "throw")
                    /\ ConsumedUpTo(s, outcome, k)
                    /\ Becomes(s, "throw")

\* the rotate and pitch handlers of the mouse, which allow each other, with
\* methods that may throw
EnabledThrowing == {{"mouseRotate", "mousePitch"}}

InitThrowing == \E enabled \in EnabledThrowing : InitWith(enabled)

\* the listeners that run between two frames, and the host's stop()
NextThrowing == Dispatch \/ DispatchThrow \/ Stop

SpecThrowing == InitThrowing /\ [][NextThrowing]_vars

\* the application calls disable() of an enabled handler (line 59); whether
\* the handler gives up its gesture is the handler's own business
Disable ==
    \E h \in HandlerNames :
        \E keeps \in BOOLEAN :
            /\ hEnabled[h]
            /\ Becomes([Begin EXCEPT !.hEnabled[h] = FALSE,
                                     !.hActive[h] = @ /\ keeps], "disable")

\* the mouse handler for the pitch and the scroll wheel, of which the first
\* blocks the second
EnabledDisable == {{"mousePitch", "scrollZoom"}}

InitDisable == \E enabled \in EnabledDisable : InitWith(enabled)

NextDisable == Dispatch \/ Frame \/ Disable

SpecDisable == InitDisable /\ [][NextDisable]_vars

\* _blockedByActive on its own: the arguments are any set of active handlers,
\* any allow-list or none, and any candidate
AllowLists == {Undef} \cup {<<names>> : names \in SUBSET HandlerNames}

Arguments(activeHandlers, allowed, myName) ==
    [activeHandlers |-> activeHandlers, allowed |-> allowed, myName |-> myName]

InitFrom(s) ==
    /\ hEnabled = s.hEnabled
    /\ hActive = s.hActive
    /\ changes = s.changes
    /\ previousActiveHandlers = s.previousActiveHandlers
    /\ eventsInProgress = s.eventsInProgress
    /\ frameId = s.frameId
    /\ updatingCamera = s.updatingCamera
    /\ bearingChanged = s.bearingChanged
    /\ inertia = s.inertia
    /\ tr = s.tr
    /\ frames = s.frames
    /\ log = s.log
    /\ resets = s.resets
    /\ invoked = s.invoked
    /\ applied = s.applied
    /\ queued = s.queued
    /\ last = s.last
    /\ seen = InitSeen
    /\ op = "init"

\* a map constructed with any bearing (in quarter turns) and with the mouse
\* handler for rotating or the one for the pitch enabled
EnabledNorth == {{"mouseRotate"}, {"mousePitch"}}

InitNorth ==
    \E enabled \in EnabledNorth :
        \E b \in -1..2 :
            InitFrom([InitState(enabled) EXCEPT !.tr = SetBearing(@, b)])

SpecNorth == InitNorth /\ [][NextTimed]_vars

InitBlockedBy ==
    \E activeHandlers \in SUBSET HandlerNames :
        \E allowed \in AllowLists :
            \E myName \in HandlerNames :
                InitFrom(Log(InitState({}),
                             Call("arguments", "", NoEvent,
                                  <<Arguments(activeHandlers, allowed, myName)>>)))

AskBlockedBy ==
    /\ op = "init"
    /\ Becomes(Log(Cur,
                   Call("_blockedByActive", "", NoEvent,
                        <<blockedByActive(log[1].arg[1].activeHandlers,
                                          log[1].arg[1].allowed,
                                          log[1].arg[1].myName)>>)),
               "blockedByActive")

SpecBlockedBy == InitBlockedBy /\ [][AskBlockedBy]_vars

\* ------------------------------------------------- src/js/util/mapbox.js
\* A URL is the sequence of its pieces: each "/" and each "?" is a piece of
\* its own, and so is every run of characters between them.  An access token
\* is the sequence of its characters; <<>> is a falsy one (null, undefined or
\* the empty string).
MapboxScheme == <<"mapbox:", "/", "/">>

StartsWith(url, prefix) ==
    Len(url) >= Len(prefix) /\ SubSeq(url, 1, Len(prefix)) = prefix

Has(url, piece) == \E i \in DOMAIN url : url[i] = piece

\* what a call returns or throws
Returned(url) == [error |-> "", url |-> <<url>>]
Thrown(error) == [error |-> error, url |-> Undef]

\* result + suffix, unless the call that computes result threw
Plus(result, suffix) ==
    IF result.error # "" THEN result ELSE Returned(result.url[1] \o suffix)

\* url.split('/'): the segments between the "/" pieces, the last first in acc
RECURSIVE SplitFrom(_, _, _)
SplitFrom(url, i, acc) ==
    IF i > Len(url) THEN acc
    ELSE IF url[i] = "/" THEN SplitFrom(url, i + 1, Append(acc, <<>>))
    ELSE SplitFrom(url, i + 1,
                   [acc EXCEPT ![Len(acc)] = Append(@, url[i])])

Split(url) == SplitFrom(url, 1, <<(<<>>)>>)

\* split[i] of JavaScript (i counted from 0) in a string concatenation
Segment(split, i) == IF i + 1 > Len(split) THEN <<"undefined">> ELSE split[i + 1]

\* split[i] as a condition
SegmentTruthy(split, i) == i + 1 <= Len(split) /\ split[i + 1] # <<>>

\* line 7
Effective(accessToken, config) ==
    IF accessToken # <<>> THEN accessToken ELSE config.ACCESS_TOKEN

\* line 14
Replaced(url, prefix) ==
    IF StartsWith(url, MapboxScheme)
    THEN prefix \o SubSeq(url, Len(MapboxScheme) + 1, Len(url))
    ELSE url

\* line 15
WithParameter(url) ==
    url \o (IF Has(url, "?") THEN <<"&access_token=">> ELSE <<"?", "access_token=">>)

\* lines 6-27, accessToken being the effective token of line 7
normalizeURLAnyToken(url, pathPrefix, accessToken, config) ==
    IF accessToken = <<>> /\ config.REQUIRE_ACCESS_TOKEN
    THEN Thrown("An API access token is required")
    ELSE Returned(WithParameter(Replaced(url, config.API_URL \o pathPrefix))
                  \o (IF config.REQUIRE_ACCESS_TOKEN THEN accessToken ELSE <<>>))

normalizeURL(url, pathPrefix, accessToken, config) ==
    IF accessToken = <<>> /\ config.REQUIRE_ACCESS_TOKEN
    THEN Thrown("An API access token is required")
    ELSE IF config.REQUIRE_ACCESS_TOKEN /\ accessToken[1] = "s"
    THEN Thrown("Use a public access token")
    ELSE Returned(WithParameter(Replaced(url, config.API_URL \o pathPrefix))
                  \o (IF config.REQUIRE_ACCESS_TOKEN THEN accessToken ELSE <<>>))

\* lines 33-37
StyleOf(split) ==
    MapboxScheme \o Segment(split, 3) \o <<"/">> \o Segment(split, 4)
    \o (IF SegmentTruthy(split, 5) THEN <<"/", "draft">> ELSE <<>>)

\* lines 29-38
normalizeStyleURL(url, accessToken, config) ==
    IF ~StartsWith(url, MapboxScheme \o <<"styles", "/">>) THEN Returned(url)
    ELSE normalizeURL(StyleOf(Split(url)), <<"/", "styles", "/", "v1", "/">>,
                      Effective(accessToken, config), config)

\* lines 40-47
normalizeSourceURLAlways(url, accessToken, config) ==
    Plus(normalizeURL(url \o <<".json">>, <<"/", "v4", "/">>,
                      Effective(accessToken, config), config),
         <<"&secure">>)

normalizeSourceURL(url, accessToken, config) ==
    IF ~StartsWith(url, MapboxScheme) THEN Returned(url)
    ELSE Plus(normalizeURL(url \o <<".json">>, <<"/", "v4", "/">>,
                           Effective(accessToken, config), config),
              <<"&secure">>)

\* lines 49-55
normalizeGlyphsURL(url, accessToken, config) ==
    IF ~StartsWith(url, MapboxScheme) THEN Returned(url)
    ELSE normalizeURL(MapboxScheme \o Segment(Split(url), 3)
                      \o <<"/", "{fontstack}", "/", "{range}.pbf">>,
                      <<"/", "fonts", "/", "v1", "/">>,
                      Effective(accessToken, config), config)

\* the URLs, tokens and configurations the functions are asked about
URLs ==
    {<<"mapbox:", "/", "/", "styles", "/", "user", "/", "style">>,
     <<"mapbox:", "/", "/", "styles", "/", "user", "/", "style", "/", "draft">>,
     <<"mapbox:", "/", "/", "styles", "/", "user", "/", "style", "?", "fresh=true">>,
     <<"mapbox:", "/", "/", "user.map">>,
     <<"mapbox:", "/", "/", "user.map", "?", "foo=bar">>,
     <<"mapbox:", "/", "/", "fonts", "/", "boxmap", "/", "{fontstack}", "/", "{range}.pbf">>,
     <<"mapbox:", "/", "x">>,
     <<"http:", "/", "/", "path">>,
     <<"http:", "/", "/", "path", "?", "a=b">>,
     <<"http:", "/", "/", "mapbox:", "/", "/", "styles", "/", "user">>,
     <<>>}

AccessTokens ==
    {<<>>, <<"k", "e", "y">>, <<"p", "k", ".", "a">>, <<"s", "k", ".", "a">>}

Configs ==
    [API_URL : {<<"https:", "/", "/", "api.mapbox.com">>},
     ACCESS_TOKEN : AccessTokens,
     REQUIRE_ACCESS_TOKEN : BOOLEAN]

Request(url, accessToken, config) ==
    [url |-> url, accessToken |-> accessToken, config |-> config]

InitNormalize ==
    \E url \in URLs :
        \E accessToken \in AccessTokens :
            \E config \in Configs :
                InitFrom(Log(InitState({}),
                             Call("arguments", "", NoEvent,
                                  <<Request(url, accessToken, config)>>)))

\* the function has returned `result`
Answered(name, result) ==
    Becomes(Log(Cur, Call(name, "", NoEvent, <<result>>)), name)

NormalizeStyle ==
    /\ op = "init"
    /\ Answered("normalizeStyleURL",
                normalizeStyleURL(log[1].arg[1].url, log[1].arg[1].accessToken,
                                  log[1].arg[1].config))

NormalizeSource ==
    /\ op = "init"
    /\ Answered("normalizeSourceURL",
                normalizeSourceURL(log[1].arg[1].url, log[1].arg[1].accessToken,
                                   log[1].arg[1].config))

NormalizeGlyphs ==
    /\ op = "init"
    /\ Answered("normalizeGlyphsURL",
                normalizeGlyphsURL(log[1].arg[1].url, log[1].arg[1].accessToken,
                                   log[1].arg[1].config))

NextNormalize == NormalizeStyle \/ NormalizeSource \/ NormalizeGlyphs

SpecNormalize == InitNormalize /\ [][NextNormalize]_vars

\* ------------------------------------- mergeHandlerResult and _applyChanges
\* The two functions on their own.  Two handlers registered one after the
\* other answer one event with `first` and `second` (<<>> when a handler
\* returns nothing), or two changes with these results wait in the queue.
FirstHandler == "mousePan"
SecondHandler == "scrollZoom"

Pinch == <<0, PanStep>>

\* results that differ in their deltas and in their originating event
DeltaResults ==
    {[EmptyResult EXCEPT !.zoomDelta = z, !.panDelta = p, !.originalEvent = o] :
        z \in {Undef, <<0>>, <<1>>}, p \in {Undef, <<PanStep, 0>>},
        o \in {Undef, <<"touchend">>}}

\* results that differ in their anchors and in the noInertia flag
AnchorResults ==
    {[EmptyResult EXCEPT !.zoomDelta = z, !.around = a, !.pinchAround = p,
                         !.noInertia = n] :
        z \in {Undef, <<1>>}, a \in {Undef, Null, Anchor},
        p \in {Undef, Null, Pinch}, n \in {Undef, <<FALSE>>, <<TRUE>>}}

Answers == {Undef} \cup {<<r>> : r \in DeltaResults \cup AnchorResults}

Answering(first, second, e) == [first |-> first, second |-> second, e |-> e]

InitMerge ==
    \E first \in Answers :
        \E second \in Answers :
            \E e \in {NoEvent, "mousemove"} :
                InitFrom(Log(InitState({}),
                             Call("arguments", "", NoEvent,
                                  <<Answering(first, second, e)>>)))

\* lines 288-289 and the calls of line 306 for the two handlers
mergeSecond(m, second, e) ==
    mergeHandlerResult(m[1], m[2], second, SecondHandler, e)

mergeBoth(first, second, e) ==
    mergeSecond(mergeHandlerResult([EmptyResult EXCEPT !.needsRenderFrame = <<FALSE>>],
                                   NoEvents, first, FirstHandler, e),
                second, e)

MergeBoth ==
    /\ op = "init"
    /\ Becomes(Log(Cur, Call("mergeHandlerResult", "", NoEvent,
                             <<mergeBoth(log[1].arg[1].first, log[1].arg[1].second,
                                         log[1].arg[1].e)>>)),
               "mergeHandlerResult")

\* lines 370-386 for a queue of the two changes, and lines 399-410: the
\* combined result and, when it has a change, the point the camera moves
\* around
Combined(combinedResult) ==
    [result |-> combinedResult,
     around |-> IF hasChange(combinedResult) THEN <<aroundOf(combinedResult)>>
                ELSE Undef]

combineBoth(first, second) ==
    Combined(Combine(<<(<<first, NoEvents, NoDeactivated>>),
                       (<<second, NoEvents, NoDeactivated>>)>>,
                     1, <<EmptyResult, NoEvents, NoDeactivated>>)[1])

CombineBoth ==
    /\ op = "init"
    /\ log[1].arg[1].first # Undef /\ log[1].arg[1].second # Undef
    /\ Becomes(Log(Cur, Call("_applyChanges", "", NoEvent,
                             <<combineBoth(log[1].arg[1].first[1],
                                           log[1].arg[1].second[1])>>)),
               "_applyChanges")

NextMerge == MergeBoth \/ CombineBoth

SpecMerge == InitMerge /\ [][NextMerge]_vars

\* ------------------------------------------------------------------ claims
\* C1: at most one frame request is outstanding in every reachable state: the
\* callbacks the host still owes are at most one, there is one exactly when
\* the token _frameId is set, and only the frame callback clears the token.
C1_SingleFrameRequest ==
    /\ [](frames <= 1 /\ (frameId <=> frames = 1))
    /\ [][(frameId /\ ~frameId') => op' = "frame"]_vars

\* a second dispatch has queued a change while the request of the first is
\* still outstanding
C1_Witness ==
    op = "dispatch" /\ Len(changes) = 2 /\ frames = 1 /\ ~HasCall(log, "_requestRenderFrame")

\* C2: the transform changes only in the frame callback, and one frame
\* callback applies the combined deltas at most once; a dispatch leaves
\* bearing, pitch, zoom and centre as they are.
C2_OnlyFlushMovesCamera ==
    [][/\ (tr' # tr => op' = "frame")
       /\ (op' = "dispatch" => tr' = tr /\ applied' = <<>>)
       /\ Len(applied') <= 1]_vars

\* two dispatches rotated the map and one frame callback applied both at once
C2_Witness ==
    /\ op = "frame"
    /\ Len(applied) = 1
    /\ applied[1].expected.bearing = 2
    /\ tr.bearing = 2

\* C3: the deltas a flush applies are the sums of what the dispatches since
\* the queue was last emptied contributed; N dispatches that each pan by
\* (PanStep, 0) are applied as one pan by (N * PanStep, 0).
C3_FlushSumsDeltas ==
    \A i \in DOMAIN applied :
        LET r == applied[i].result
            q == applied[i].expected
        IN  /\ (IF r.panDelta = Undef THEN <<0, 0>> ELSE r.panDelta) = q.pan
            /\ q.pan = <<q.pans * PanStep, 0>>
            /\ Num(r.zoomDelta) = q.zoom
            /\ Num(r.bearingDelta) = q.bearing
            /\ Num(r.pitchDelta) = q.pitch

\* two dispatches each panned by (PanStep, 0) and the flush applied their sum
C3_Witness ==
    /\ op = "frame"
    /\ Len(applied) = 1
    /\ applied[1].expected.pans = 2
    /\ applied[1].result.panDelta = <<2 * PanStep, 0>>

\* the positions in the registry of the handlers of the active set
ActivePositions == {i \in DOMAIN Handlers : Handlers[i] \in previousActiveHandlers}

\* C4 as stated: after any dispatch, any two distinct handlers of the active
\* set each appear in the allow-list of the other.
C4_MutuallyAllowed ==
    \A g \in previousActiveHandlers : \A h \in previousActiveHandlers \ {g} :
        /\ AllowedOf(g) # Undef /\ h \in AllowedOf(g)[1]
        /\ AllowedOf(h) # Undef /\ g \in AllowedOf(h)[1]

\* C4, amended: of any two distinct handlers of the active set, the one
\* registered later has the one registered earlier in its allow-list; the
\* earlier one need not list the later one.
C4_LaterAllowsEarlier ==
    \A i \in ActivePositions : \A j \in ActivePositions :
        i < j => /\ AllowedOf(Handlers[j]) # Undef
                 /\ Handlers[i] \in AllowedOf(Handlers[j])[1]

\* a wheel event reached scrollZoom while mousePan was active: both are in
\* the active set
C4_Witness ==
    /\ op = "dispatch"
    /\ previousActiveHandlers = {"mousePan", "scrollZoom"}
    /\ "scrollZoom" \in invoked

\* C5: movestart and moveend/easeTo alternate strictly, starting with
\* movestart, and a movestart is unanswered exactly while the persistent
\* events-in-progress map holds a category: one movestart per transition from
\* no category to some, one moveend or easeTo per transition back.
C5_MoveStartEndAlternate ==
    /\ seen.moveOrder
    /\ seen.moving <=> isMoving(eventsInProgress)
    /\ CountCalls(log, "movestart") <= 1
    /\ CountCalls(log, "moveend") + CountCalls(log, "easeTo") <= 1

\* a gesture that began in an earlier frame ends in this one with an easeTo
C5_Witness ==
    /\ op = "frame"
    /\ HasCall(log, "easeTo")
    /\ ~HasCall(log, "movestart")
    /\ ~isMoving(eventsInProgress)

\* C6: per category the notifications form (start, change*, end)*: a change
\* or an end only after an unanswered start, no start before the end of the
\* previous one; the categories with an unanswered start are those the
\* persistent events-in-progress map holds.
C6_CategoryBrackets ==
    /\ seen.catOrder
    /\ seen.open = {c \in Categories : Present(eventsInProgress, c)}

\* a rotation started in an earlier frame changes again and ends in this one
C6_Witness ==
    /\ op = "frame"
    /\ \E i \in DOMAIN log : \E j \in DOMAIN log :
          /\ i < j
          /\ log[i].type = "change" /\ log[i].cat = "rotate"
          /\ log[j].type = "end" /\ log[j].cat = "rotate"
    /\ ~HasCall(log, "start")

\* the bearing a gesture ends with: the inertial target's if it names one,
\* else the map's
FinalBearing(inertialEase) ==
    IF inertialEase # Undef /\ inertialEase[1].bearing # Undef
    THEN inertialEase[1].bearing[1]
    ELSE tr.bearing

InSnapRange(b) == 0 < Abs(b) /\ Abs(b) < bearingSnap

\* C7: at a gesture end whose final bearing b has 0 < |b| < bearingSnap the
\* bearing is corrected to 0 once: the target handed to easeTo has bearing 0,
\* or, without a target, resetNorth is called once; with b = 0 or
\* |b| >= bearingSnap the target is handed over as it is and resetNorth is
\* not called.
C7_BearingSnap ==
    \A i \in DOMAIN log :
        log[i].type = "_onMoveEnd" =>
            LET inertialEase == log[i].arg
                snap == InSnapRange(FinalBearing(inertialEase))
            IN  IF inertialEase # Undef
                THEN /\ i < Len(log)
                     /\ log[i + 1].type = "easeTo"
                     /\ log[i + 1].arg[1] =
                            IF snap THEN [inertialEase[1] EXCEPT !.bearing = <<0>>]
                            ELSE inertialEase[1]
                     /\ CountCalls(log, "easeTo") = 1
                     /\ ~HasCall(log, "resetNorth")
                ELSE /\ CountCalls(log, "resetNorth") = (IF snap THEN 1 ELSE 0)
                     /\ ~HasCall(log, "easeTo")

\* a gesture ends with an inertial target of bearing 1, inside the snap
\* range, and easeTo receives the target with bearing 0
C7_Witness ==
    \E i \in DOMAIN log :
        /\ log[i].type = "_onMoveEnd"
        /\ log[i].arg # Undef
        /\ log[i].arg[1].bearing = <<1>>
        /\ log[i + 1].type = "easeTo"
        /\ log[i + 1].arg[1].bearing = <<0>>

\* C8 as stated, for a gesture in which a drag is in progress when the frame
\* callback runs: when the combined result of the flush sets noInertia and the
\* gesture ends, easeTo is not called and moveend is fired.
C8_NoInertiaNoEase ==
    [][(/\ Present(eventsInProgress, "drag")
        /\ op' = "frame"
        /\ applied' # <<>>
        /\ IsTrue(applied'[1].result.noInertia)
        /\ HasCall(log', "_onMoveEnd"))
       => (~HasCall(log', "easeTo") /\ HasCall(log', "moveend"))]_vars

\* C8, amended: a flush whose combined result sets noInertia records no
\* inertia sample; if the gesture ends in it and the inertia holds no sample
\* of an earlier flush, easeTo is not called and moveend is fired.  (A sample
\* recorded by an earlier flush without the flag still yields an easeTo.)
C8_NoInertiaRecordsNothing ==
    [][(/\ op' = "frame"
        /\ applied' # <<>>
        /\ IsTrue(applied'[1].result.noInertia))
       => /\ inertia' = inertia
          /\ (inertia = <<>> /\ HasCall(log', "_onMoveEnd"))
                => (~HasCall(log', "easeTo") /\ HasCall(log', "moveend"))]_vars

\* a flush with noInertia set zooms and ends the gesture while the inertia
\* holds nothing: moveend is fired
C8_Witness ==
    /\ op = "frame"
    /\ applied # <<>>
    /\ IsTrue(applied[1].result.noInertia)
    /\ Truthy(applied[1].result.zoomDelta)
    /\ inertia = <<>>
    /\ HasCall(log, "moveend")

\* a flush applied a combined result without pan delta
AnchoredFlush ==
    /\ op' = "frame"
    /\ applied' # <<>>
    /\ applied'[1].result.panDelta = Undef

\* C9: in a flush whose combined result has a zoom, bearing or pitch delta
\* and no pan delta, the location under the anchor point before the update is
\* the location under the same point after it.
C9_AnchorStays ==
    [][AnchoredFlush =>
          pointLocation(tr', applied'[1].around) = pointLocation(tr, applied'[1].around)]_vars

\* a flush zoomed in around an anchor off the centre and moved the centre
C9_Witness ==
    /\ op = "frame"
    /\ applied # <<>>
    /\ applied[1].result.panDelta = Undef
    /\ Truthy(applied[1].result.zoomDelta)
    /\ applied[1].around = Anchor
    /\ tr.zoom = 1
    /\ tr.center # InitTransform.center

\* one event on which mousePan alone contributed the pan delta (PanStep, 0)
\* and the conflicting keyboard handler was blocked is queued, and the frame
\* callback flushes it
OnePanFlushed ==
    /\ op = "dispatch"
    /\ "mousePan" \in invoked
    /\ "keyboard" \in resets
    /\ Len(changes) = 1
    /\ changes[1][1].panDelta = <<PanStep, 0>>
    /\ op' = "frame"

\* C10 as stated: the flush combines to the pan delta d and the location that
\* was under the anchor point a lies under a - d after the update.
C10_AnchorMinusDelta ==
    [][OnePanFlushed =>
          /\ Len(applied') = 1
          /\ applied'[1].result.panDelta = <<PanStep, 0>>
          /\ pointLocation(tr', PointSub(applied'[1].around, <<PanStep, 0>>))
                = pointLocation(tr, applied'[1].around)]_vars

\* C10, amended: the flush combines to the pan delta d; the location that was
\* under a - d lies under the anchor point a after the update, so the
\* location that was under a lies under a + d.
C10_AnchorPlusDelta ==
    [][OnePanFlushed =>
          /\ Len(applied') = 1
          /\ applied'[1].result.panDelta = <<PanStep, 0>>
          /\ pointLocation(tr', applied'[1].around)
                = pointLocation(tr, PointSub(applied'[1].around, <<PanStep, 0>>))
          /\ pointLocation(tr', PointAdd(applied'[1].around, <<PanStep, 0>>))
                = pointLocation(tr, applied'[1].around)]_vars

\* the flush of one pan by (PanStep, 0), made while keyboard was enabled, has
\* moved the centre
C10_Witness ==
    /\ op = "frame"
    /\ hEnabled["keyboard"]
    /\ Len(applied) = 1
    /\ applied[1].result.panDelta = <<PanStep, 0>>
    /\ applied[1].around = Anchor
    /\ tr.center # InitTransform.center

\* the change the dispatch of this step pushed on the queue, if it pushed one
ThisChange ==
    IF last'.deactivated # NoDeactivated \/ hasChange(last'.result)
    THEN <<(<<last'.result, last'.events, last'.deactivated>>)>>
    ELSE <<>>

\* the record of category c in the latest of the changes q[1..i] that has one,
\* else the record of the persistent map
RECURSIVE LatestOwner(_, _, _)
LatestOwner(q, c, i) ==
    IF i = 0 THEN eventsInProgress[c]
    ELSE IF Present(q[i][2], c) THEN q[i][2][c]
    ELSE LatestOwner(q, c, i - 1)

\* what the latest of the changes q[1..i] that found h deactivated captured
RECURSIVE LatestDeactivation(_, _, _)
LatestDeactivation(q, h, i) ==
    IF i = 0 THEN Absent
    ELSE IF q[i][3][h] # Absent THEN q[i][3][h]
    ELSE LatestDeactivation(q, h, i - 1)

\* the deactivation event captured for the owner if there is one, else the
\* owner's originating event
CapturedOr(q, owner) ==
    IF LatestDeactivation(q, owner.handlerName, Len(q)) \notin {Absent, NoEvent}
    THEN LatestDeactivation(q, owner.handlerName, Len(q))
    ELSE owner.originalEvent

\* C11 as stated: every end notification carries the event of the dispatch
\* that found the owning handler deactivated if one was captured, else the
\* last originating event of the category; this whichever step ends the
\* category: a flush, stop() or a camera-animation dispatch.
C11_EndCarriesCaptured ==
    [][\A i \in DOMAIN log' :
          log'[i].type = "end" =>
             log'[i].ev =
                IF op' = "frame"
                THEN CapturedOr(changes \o ThisChange,
                                LatestOwner(changes \o ThisChange, log'[i].cat,
                                            Len(changes \o ThisChange)))
                ELSE CapturedOr(changes, eventsInProgress[log'[i].cat])]_vars

\* C11, amended: an end notification of a flush carries the event of the
\* latest queued dispatch that found the owning handler deactivated if that
\* dispatch had an input event, else the last originating event of the
\* category (so zoomend carries e1 when the owner is found inactive on a
\* tick); an end notification of stop() or of a camera-animation dispatch
\* carries the originating event of the persistent map, also when a
\* deactivation event is waiting in the queue.
C11_EndEventOfFlush ==
    [][\A i \in DOMAIN log' :
          log'[i].type = "end" =>
             log'[i].ev =
                IF op' = "frame"
                THEN CapturedOr(changes \o ThisChange,
                                LatestOwner(changes \o ThisChange, log'[i].cat,
                                            Len(changes \o ThisChange)))
                ELSE eventsInProgress[log'[i].cat].originalEvent]_vars

\* a drag that began with a mousemove ends in a flush and dragend carries the
\* mouseup that found mousePan deactivated
C11_Witness ==
    /\ op = "frame"
    /\ \E i \in DOMAIN log :
          log[i].type = "end" /\ log[i].cat = "drag" /\ log[i].ev = "mouseup"

\* the position of a handler in the registry
Pos(h) == CHOOSE i \in DOMAIN Handlers : Handlers[i] = h

\* h was blocked in the dispatch of this step: a handler registered before h
\* is in the active set of the dispatch and is not in h's allow-list
BlockedIn(h) ==
    \E g \in previousActiveHandlers' :
        /\ Pos(g) < Pos(h)
        /\ (AllowedOf(h) = Undef \/ g \notin AllowedOf(h)[1])

\* the field f of the merged result is as line 288 left it, or an invoked
\* handler that was not blocked may have returned its value
Contributed(f) ==
    \/ last'.result[f] = NoDispatch.result[f]
    \/ \E g \in invoked' :
          /\ ~BlockedIn(g)
          /\ \E r \in Results(g) : r[f] = last'.result[f]

\* C12: in every dispatch (also the tick of a frame) an enabled handler that
\* is blocked is reset and not invoked, owns no category of the dispatch's
\* events in progress and is not in its active set, and every field of the
\* merged result comes from an invoked, unblocked handler; an enabled handler
\* that is not blocked is not reset.
C12_BlockedIsReset ==
    [][op' \in {"dispatch", "frame"} =>
          /\ \A h \in HandlerNames :
                hEnabled[h] =>
                   IF BlockedIn(h)
                   THEN /\ h \in resets'
                        /\ h \notin invoked'
                        /\ h \notin previousActiveHandlers'
                        /\ \A c \in Categories : last'.events[c].handlerName # h
                   ELSE h \notin resets'
          /\ \A f \in FieldNames : Contributed(f)]_vars

\* a keydown arrives while mousePan is active: keyboard, which declares
\* keydown, is blocked and reset, and no handler is invoked
C12_Witness ==
    /\ op = "dispatch"
    /\ last.type = "keydown"
    /\ hEnabled["keyboard"]
    /\ previousActiveHandlers = {"mousePan"}
    /\ resets = {"keyboard"}
    /\ invoked = {}

\* the names of an allow-list, none when the list is missing
AllowSet(allowed) == IF allowed = Undef THEN {} ELSE allowed[1]

\* C13: _blockedByActive returns true iff the active handlers other than
\* myName are not all in the allow-list, a missing list counting as empty;
\* with no active handler, or myName alone, it returns false.
C13_BlockedIffNotAllowed ==
    op = "blockedByActive" =>
        /\ log[2].arg[1]
              = ~((log[1].arg[1].activeHandlers \ {log[1].arg[1].myName})
                      \subseteq AllowSet(log[1].arg[1].allowed))
        /\ (log[1].arg[1].activeHandlers \subseteq {log[1].arg[1].myName})
              => ~log[2].arg[1]

\* scrollZoom, itself active, asks while mousePan, which it allows, and
\* keyboard, which it does not, are active: blocked
C13_Witness ==
    /\ op = "blockedByActive"
    /\ log[1].arg[1] = Arguments({"mousePan", "scrollZoom", "keyboard"},
                                 <<{"mousePan"}>>, "scrollZoom")
    /\ log[2].arg[1] = TRUE

\* the calls of stop() made in the last operation, from the host or from
\* inside the manager's own flow
StopCalls == {i \in DOMAIN log : log[i].type = "stop"}

\* what the call of stop() recorded at log[i] left behind
StopCleared(i) ==
    /\ log[i].arg[1].resets = HandlerNames
    /\ log[i].arg[1].active = {}
    /\ log[i].arg[1].queue = 0
    /\ log[i].arg[1].samples = 0

\* C14 as stated: in whatever state stop() is called, when it returns every
\* handler has been reset, the queue is empty and the inertia holds no sample.
C14_StopAlwaysClears == \A i \in StopCalls : StopCleared(i)

\* C14, amended: when stop() is called while the re-entrancy guard is not
\* held, then when it returns every handler has been reset, the queue is
\* empty and the inertia holds no sample.
C14_StopClearsUnguarded ==
    \A i \in StopCalls : ~log[i].arg[1].guarded => StopCleared(i)

\* the host calls stop() during a gesture with a frame outstanding: the
\* categories in progress end and everything is cleared
C14_Witness ==
    /\ op = "stop"
    /\ frames = 1
    /\ HasCall(log, "end")
    /\ \E i \in StopCalls :
          /\ ~log[i].arg[1].guarded
          /\ ~log[i].arg[1].unchanged
          /\ StopCleared(i)

\* C15: a call of stop() that finds the re-entrancy guard held changes
\* nothing: no handler is reset or deactivated, the inertia, the change queue
\* and the events in progress stay as they are and no notification is fired.
C15_GuardedStopIsNoOp ==
    \A i \in StopCalls : log[i].arg[1].guarded => log[i].arg[1].unchanged

\* at a gesture end inside a flush, easeTo calls back into stop() while the
\* guard is held; the inertia sample that gave the target is still there
C15_Witness ==
    /\ op = "frame"
    /\ inertia # <<>>
    /\ \E i \in StopCalls :
          /\ i > 1
          /\ log[i - 1].type = "easeTo"
          /\ log[i].arg[1].guarded
          /\ log[i].arg[1].queue > 0

\* C16: a frame callback requested before stop() that fires right after it
\* finds the change queue empty and leaves bearing, pitch, zoom and centre as
\* they are.
C16_StaleFrameAppliesNothing ==
    [][(op = "stop" /\ frames > 0 /\ op' = "frame")
          => (changes = <<>> /\ tr' = tr /\ applied' = <<>>)]_vars

\* C17: a dispatch whose merged result carries a cameraAnimation callback
\* returns with the inertia and the queue empty, having called the callback
\* once, as its last call, and leaves the transform alone; a dispatch without
\* one does not call it.  The frame that follows applies nothing, unless its
\* own tick emits a change: no delta of the dispatch and no delta queued
\* before it reaches the transform.
C17_AnimationClearsQueue ==
    /\ [][op' = "dispatch" =>
             IF last'.result.cameraAnimation # Undef
             THEN /\ inertia' = <<>>
                  /\ changes' = <<>>
                  /\ CountCalls(log', "cameraAnimation") = 1
                  /\ log'[Len(log')].type = "cameraAnimation"
                  /\ tr' = tr
             ELSE ~HasCall(log', "cameraAnimation")]_vars
    /\ [][(/\ op = "dispatch"
           /\ last.result.cameraAnimation # Undef
           /\ op' = "frame"
           /\ ~hasChange(last'.result))
             => (tr' = tr /\ applied' = <<>>)]_vars

\* a keydown on which keyboard returns a cameraAnimation together with a
\* bearing delta, after mousePan had contributed to a dispatch of the same
\* frame interval: the queue is empty and the frame is still outstanding
C17_Witness ==
    /\ op = "dispatch"
    /\ last.type = "keydown"
    /\ last.result.cameraAnimation # Undef
    /\ last.result.bearingDelta = <<1>>
    /\ last.deactivated["mousePan"] = "keydown"
    /\ changes = <<>>
    /\ frames = 1

\* the dispatch of this step called map._stop(true) while the guard was held
Signalled == \E i \in DOMAIN log' : log'[i].type = "_stop" /\ log'[i].arg = <<TRUE>>

\* C18: a dispatch (also the tick of a frame) signals the host to stop its
\* animation iff its active set is not empty or its merged result carries a
\* change; a dispatch gives the signal only with the guard held, and no
\* handler but a blocked one is reset.
C18_StopSignal ==
    [][op' \in {"dispatch", "frame"} =>
          /\ Signalled <=> (previousActiveHandlers' # {} \/ hasChange(last'.result))
          /\ op' = "dispatch" =>
                \A i \in DOMAIN log' :
                    log'[i].type = "_stop" => log'[i].arg = <<TRUE>>
          /\ \A h \in resets' : BlockedIn(h)]_vars

\* a mousemove on which the active mousePan returns nothing: the signal is
\* given for the active handler alone
C18_Witness ==
    /\ op = "dispatch"
    /\ last.type = "mousemove"
    /\ previousActiveHandlers = {"mousePan"}
    /\ ~hasChange(last.result)
    /\ HasCall(log, "_stop")
    /\ changes = <<>>

\* C19: the dispatch of an event without timeStamp stops at the assertion:
\* no handler is invoked or reset, the previous active set, the events in
\* progress and the queue stay as they are, and no frame is requested.
C19_UntimedChangesNothing ==
    [][op' = "assert" =>
          /\ invoked' = {} /\ resets' = {}
          /\ hActive' = hActive
          /\ previousActiveHandlers' = previousActiveHandlers
          /\ eventsInProgress' = eventsInProgress
          /\ changes' = changes
          /\ log' = <<>>
          /\ frames' = frames /\ frameId' = frameId]_vars

\* the assertion fails in the middle of a gesture with a change queued
C19_Witness ==
    /\ op = "assert"
    /\ previousActiveHandlers # {}
    /\ isMoving(eventsInProgress)
    /\ changes # <<>>

\* no enabled handler has a method for the event type
NoneDeclares(type) == \A h \in HandlerNames : hEnabled[h] => ~Declares(h, type)

\* the members of the previous active set that the dispatch of this step
\* did not find active
Gone == previousActiveHandlers \ previousActiveHandlers'

\* C20 as stated: an event for which no enabled handler declares a method
\* invokes no handler, appends no PendingChange, requests no frame and
\* leaves the events in progress as they are.
C20_UndeclaredIgnored ==
    [][(op' = "dispatch" /\ NoneDeclares(last'.type)) =>
          /\ invoked' = {}
          /\ changes' = changes
          /\ frames' = frames /\ ~HasCall(log', "_requestRenderFrame")
          /\ eventsInProgress' = eventsInProgress]_vars

\* C20, amended: such an event invokes no handler and leaves the events in
\* progress as they are; it appends no PendingChange and requests no frame
\* if every member of the previous active set is still active, and else
\* appends one PendingChange without deltas that records the event for the
\* members no longer active, and leaves a frame request outstanding.
C20_UndeclaredQueuesDeactivation ==
    [][(op' = "dispatch" /\ NoneDeclares(last'.type)) =>
          /\ invoked' = {}
          /\ eventsInProgress' = eventsInProgress
          /\ tr' = tr
          /\ IF Gone = {}
             THEN /\ changes' = changes
                  /\ frames' = frames /\ ~HasCall(log', "_requestRenderFrame")
             ELSE /\ changes' = Append(changes,
                                       <<NoDispatch.result, NoEvents,
                                         [h \in HandlerNames |->
                                            IF h \in Gone THEN last'.type
                                            ELSE Absent]>>)
                  /\ frames' = 1]_vars

\* scrollZoom, which answered a wheel event with a result and is not active,
\* is found deactivated by a mousemove that no enabled handler declares
C20_Witness ==
    /\ op = "dispatch"
    /\ last.type = "mousemove"
    /\ hEnabled["scrollZoom"] /\ ~hEnabled["mousePan"]
    /\ last.deactivated["scrollZoom"] = "mousemove"
    /\ invoked = {}
    /\ changes # <<>>
    /\ frames = 1

\* the handlers registered after the one that threw in this step
Later == {Handlers[j] : j \in {j \in DOMAIN Handlers :
              \E k \in 1..(j - 1) : log'[Len(log')].arg = <<Handlers[k]>>}}

\* C21: when the method of a handler throws, the exception is the last thing
\* the dispatch does: no handler registered later is invoked or reset, and the
\* previous active set, the queue and the events in progress are those from
\* before the dispatch; no change is queued and nothing is flushed or fired.
C21_ThrowPropagates ==
    [][op' = "throw" =>
          /\ log'[Len(log')].type = "throw"
          /\ Later \cap (invoked' \cup resets') = {}
          /\ previousActiveHandlers' = previousActiveHandlers
          /\ changes' = changes
          /\ eventsInProgress' = eventsInProgress
          /\ tr' = tr
          /\ last' = NoDispatch
          /\ \A i \in DOMAIN log' :
                log'[i].type \in {"throw", "stop", "_requestRenderFrame"}]_vars

\* mouseRotate answers a mousemove with a bearing delta and the method of
\* mousePitch, registered after it, throws while a change is queued
C21_Witness ==
    /\ op = "throw"
    /\ log[Len(log)].arg = <<"mousePitch">>
    /\ "mouseRotate" \in invoked
    /\ changes # <<>>
    /\ previousActiveHandlers # {}

\* the arguments and the answer of the call made in this state
Asked == log[1].arg[1]
Answer == log[2].arg[1]
Normalizers == {"normalizeStyleURL", "normalizeSourceURL", "normalizeGlyphsURL"}

\* C22: normalizeStyleURL, normalizeSourceURL and normalizeGlyphsURL return a
\* URL that does not begin with mapbox:// as it is, whatever the token passed,
\* the token configured and the configuration are.
C22_OtherSchemeUnchanged ==
    (op \in Normalizers /\ ~StartsWith(Asked.url, MapboxScheme))
        => Answer = Returned(Asked.url)

\* an http URL that holds mapbox:// further on, asked about with no token at
\* all where one is required
C22_Witness ==
    /\ op = "normalizeSourceURL"
    /\ StartsWith(Asked.url, <<"http:", "/", "/", "mapbox:", "/", "/">>)
    /\ Asked.accessToken = <<>> /\ Asked.config.ACCESS_TOKEN = <<>>
    /\ Asked.config.REQUIRE_ACCESS_TOKEN
    /\ Answer = Returned(Asked.url)

\* the token is a secret one: sk.*
Secret(token) == StartsWith(token, <<"s", "k", ".">>)

\* normalizeSourceURL is asked about a mapbox:// URL with no token at all, or
\* with a secret one
BadToken ==
    /\ op = "normalizeSourceURL"
    /\ StartsWith(Asked.url, MapboxScheme)
    /\ \/ Effective(Asked.accessToken, Asked.config) = <<>>
       \/ Secret(Effective(Asked.accessToken, Asked.config))

\* C23 as stated: normalizeSourceURL on a mapbox:// URL throws and returns no
\* URL when no token is passed and none is configured, and when the effective
\* token is a secret one.
C23_BadTokenThrows ==
    BadToken => (Answer.error # "" /\ Answer.url = Undef)

\* C23, amended: it does so when the configuration requires an access token.
C23_BadTokenThrowsIfRequired ==
    (BadToken /\ Asked.config.REQUIRE_ACCESS_TOKEN)
        => (Answer.error # "" /\ Answer.url = Undef)

\* no token is passed and the configured one is secret
C23_Witness ==
    /\ BadToken
    /\ Asked.config.REQUIRE_ACCESS_TOKEN
    /\ Asked.accessToken = <<>>
    /\ Secret(Asked.config.ACCESS_TOKEN)
    /\ Answer = Thrown("Use a public access token")

\* the merged result of the dispatch of this step has a change, or a member
\* of the previous active set is not in its active set
MustQueue == hasChange(last'.result) \/ Gone # {}

\* the PendingChange of the dispatch of this step
Pending == <<last'.result, last'.events, last'.deactivated>>

\* the previous active set is the active set of the dispatch of this step:
\* the enabled handlers that report isActive() or were invoked and answered
ActiveSetKept ==
    /\ \A h \in HandlerNames :
          (hEnabled[h] /\ hActive'[h]) => h \in previousActiveHandlers'
    /\ \A h \in previousActiveHandlers' :
          hEnabled[h] /\ (hActive'[h] \/ h \in invoked')

\* C24 as stated: a dispatch appends one PendingChange and leaves a frame
\* request outstanding iff its merged result has a change or a member of the
\* previous active set is not in its active set, and else leaves the queue
\* as it is; the previous active set becomes the active set of the dispatch.
C24_QueuesIffChanged ==
    [][op' = "dispatch" =>
          /\ IF MustQueue
             THEN changes' = Append(changes, Pending) /\ frameId' /\ frames' = 1
             ELSE changes' = changes
          /\ ActiveSetKept]_vars

\* C24, amended: this holds of a dispatch whose merged result carries no
\* cameraAnimation; with one the queue is empty when the dispatch returns.
C24_QueuesIffChangedOrAnimates ==
    [][op' = "dispatch" =>
          /\ IF last'.result.cameraAnimation # Undef
             THEN changes' = <<>>
             ELSE IF MustQueue
             THEN changes' = Append(changes, Pending) /\ frameId' /\ frames' = 1
             ELSE changes' = changes
          /\ ActiveSetKept]_vars

\* a mouseup finds mousePan deactivated while a change is queued: a second
\* change with no delta is appended, and the previous active set is empty
C24_Witness ==
    /\ op = "dispatch"
    /\ last.type = "mouseup"
    /\ last.deactivated["mousePan"] = "mouseup"
    /\ ~hasChange(last.result)
    /\ Len(changes) = 2
    /\ previousActiveHandlers = {}
    /\ frames = 1

\* what the flush of this step has to combine: the changes queued before the
\* frame and the change of its tick, if the tick queued one
ToFlush == changes \o ThisChange

Flushed == Combine(ToFlush, 1, <<EmptyResult, NoEvents, NoDeactivated>>)[1]

\* the queue of the next state begins with the queue of this state
QueueKept ==
    Len(changes') >= Len(changes) /\ SubSeq(changes', 1, Len(changes)) = changes

\* C25: while a change is queued a frame request is outstanding; a frame
\* combines all the changes queued, each of them once, applies the combined
\* result at most once and returns with the queue empty; apart from that a
\* queued change leaves the queue only when stop() takes effect or when a
\* dispatch carries a cameraAnimation.
C25_FlushedOnce ==
    /\ [](changes # <<>> => (frameId /\ frames = 1))
    /\ [][op' = "frame" =>
             /\ changes' = <<>>
             /\ IF hasChange(Flushed)
                THEN Len(applied') = 1 /\ applied'[1].result = Flushed
                ELSE applied' = <<>>]_vars
    /\ [][~QueueKept =>
             \/ op' = "frame"
             \/ op' = "stop" /\ ~updatingCamera
             \/ op' = "dispatch" /\ last'.result.cameraAnimation # Undef]_vars

\* a frame has flushed two queued pans in one write to the transform
C25_Witness ==
    /\ op = "frame"
    /\ changes = <<>>
    /\ Len(applied) = 1
    /\ applied[1].expected.pans = 2
    /\ applied[1].result.panDelta = <<2 * PanStep, 0>>

\* the delta field whose presence in a result records the category
DeltaOf(c) ==
    CASE c = "zoom" -> "zoomDelta"
      [] c = "drag" -> "panDelta"
      [] c = "pitch" -> "pitchDelta"
      [] c = "rotate" -> "bearingDelta"

\* the handler's answer has the field f
Returns(answer, f) == answer # Undef /\ answer[1][f] # Undef

\* the record of a category for the handler h that returned `answer`
OwnedBy(h, answer, e) ==
    [handlerName |-> h,
     originalEvent |-> IF Returns(answer, "originalEvent")
                       THEN answer[1].originalEvent[1] ELSE e]

\* C26: after the results of two unblocked handlers are merged in
\* registration order, every field of the merged result has the value of the
\* later handler if that one returned the field, else of the earlier one if
\* that one did, else its initial value; and every category belongs to the
\* last handler whose result has its delta field, with the originating event
\* of that result (the input event if the result names none), or to nobody.
C26_LaterHandlerWins ==
    op = "mergeHandlerResult" =>
        /\ \A f \in FieldNames :
              Answer[1][f] =
                IF Returns(Asked.second, f) THEN Asked.second[1][f]
                ELSE IF Returns(Asked.first, f) THEN Asked.first[1][f]
                ELSE NoDispatch.result[f]
        /\ \A c \in Categories :
              Answer[2][c] =
                IF Returns(Asked.second, DeltaOf(c))
                THEN OwnedBy(SecondHandler, Asked.second, Asked.e)
                ELSE IF Returns(Asked.first, DeltaOf(c))
                THEN OwnedBy(FirstHandler, Asked.first, Asked.e)
                ELSE NoOwner

\* both handlers return a zoom delta, the later one 0 with an originating
\* event of its own, and only the earlier one a pan delta
C26_Witness ==
    /\ op = "mergeHandlerResult"
    /\ Returns(Asked.first, "zoomDelta") /\ Asked.first[1].zoomDelta = <<1>>
    /\ Returns(Asked.first, "panDelta")
    /\ Returns(Asked.second, "zoomDelta") /\ Asked.second[1].zoomDelta = <<0>>
    /\ ~Returns(Asked.second, "panDelta")
    /\ Returns(Asked.second, "originalEvent")
    /\ Asked.e = "mousemove"
    /\ Answer[1].zoomDelta = <<0>>
    /\ Answer[2]["zoom"] = [handlerName |-> SecondHandler, originalEvent |-> "touchend"]
    /\ Answer[2]["drag"] = [handlerName |-> FirstHandler, originalEvent |-> "mousemove"]

\* the last value of the field f among the two queued changes that is not
\* undefined
LastDefined(f) ==
    IF Asked.second[1][f] # Undef THEN Asked.second[1][f] ELSE Asked.first[1][f]

\* C27: the combined result of a flush has for anchor and for pinch-anchor
\* the last value among the queued changes that is not undefined, and has the
\* noInertia flag iff a queued change has it; the camera moves around the
\* pinch-anchor if any queued change has one, else around the anchor, and
\* around the screen centre if that value is not a point.
C27_AnchorsAtFlush ==
    op = "_applyChanges" =>
        /\ Answer.result.around = LastDefined("around")
        /\ Answer.result.pinchAround = LastDefined("pinchAround")
        /\ IsTrue(Answer.result.noInertia)
              <=> (IsTrue(Asked.first[1].noInertia) \/ IsTrue(Asked.second[1].noInertia))
        /\ hasChange(Answer.result) =>
              Answer.around =
                <<IF LastDefined("pinchAround") # Undef
                  THEN (IF IsPoint(LastDefined("pinchAround"))
                        THEN LastDefined("pinchAround") ELSE CenterPoint)
                  ELSE (IF IsPoint(LastDefined("around"))
                        THEN LastDefined("around") ELSE CenterPoint)>>

\* the first queued change has a pinch-anchor and sets noInertia, the second
\* has an anchor only: the camera zooms around the pinch-anchor
C27_Witness ==
    /\ op = "_applyChanges"
    /\ Asked.first[1].pinchAround = Pinch /\ Asked.first[1].around = Undef
    /\ Asked.first[1].noInertia = <<TRUE>>
    /\ Asked.second[1].pinchAround = Undef /\ Asked.second[1].around = Anchor
    /\ Asked.second[1].noInertia = Undef
    /\ Answer.around = <<Pinch>>
    /\ Answer.result.around = Anchor
    /\ IsTrue(Answer.result.noInertia)

\* the zoom delta of the answer is absent, or an explicit zero
Inert(answer) == answer[1].zoomDelta \in {Undef, <<0>>}

\* C29: a handler whose result has no zoom delta is not recorded as the
\* owner of the zoom category, a handler whose result has the zoom delta 0
\* is; at flush a queued change with either leaves the summed zoom delta at
\* what the other queued change contributes.
C29_ZeroOwnsAbsentDoesNot ==
    /\ (op = "mergeHandlerResult" /\ Asked.second # Undef) =>
          IF Returns(Asked.second, "zoomDelta")
          THEN Answer[2]["zoom"].handlerName = SecondHandler
          ELSE Answer[2]["zoom"].handlerName # SecondHandler
    /\ (op = "_applyChanges" /\ Inert(Asked.second)) =>
          Num(Answer.result.zoomDelta) = Num(Asked.first[1].zoomDelta)
    /\ (op = "_applyChanges" /\ Inert(Asked.first)) =>
          Num(Answer.result.zoomDelta) = Num(Asked.second[1].zoomDelta)

\* the later handler returns the zoom delta 0 and a pan delta, the earlier
\* one no zoom delta: the later handler owns zoom and drag
C29_Witness ==
    /\ op = "mergeHandlerResult"
    /\ Asked.first # Undef /\ ~Returns(Asked.first, "zoomDelta")
    /\ Asked.second # Undef /\ Asked.second[1].zoomDelta = <<0>>
    /\ Returns(Asked.second, "panDelta")
    /\ Answer[2]["zoom"].handlerName = SecondHandler
    /\ Answer[2]["drag"].handlerName = SecondHandler
    /\ ~hasChange([Answer[1] EXCEPT !.panDelta = Undef])

\* C28: a frame whose flush combines no actual change leaves the transform
\* as it is, makes neither the call that cancels animations nor the call
\* that requests a re-render, records no inertia sample and returns with the
\* queue empty; the notifications are all it may fire.
C28_EmptyFlushIsNoOp ==
    [][(op' = "frame" /\ ~hasChange(Flushed)) =>
          /\ tr' = tr
          /\ applied' = <<>>
          /\ inertia' = inertia
          /\ changes' = <<>>
          /\ ~HasCall(log', "_update")
          /\ \A i \in DOMAIN log' :
                log'[i].type = "_stop" => log'[i].arg = <<TRUE>>]_vars

\* a frame flushes the change of a mouseup, which has no delta and records
\* the deactivation of mousePan, while an inertia sample is held: dragend is
\* fired and the gesture ends
C28_Witness ==
    /\ op = "frame"
    /\ applied = <<>>
    /\ inertia # <<>>
    /\ changes = <<>>
    /\ \E i \in DOMAIN log :
          log[i].type = "end" /\ log[i].cat = "drag" /\ log[i].ev = "mouseup"
    /\ HasCall(log, "easeTo")

\* the inertia samples that the flush of this step recorded: one or none
Recorded ==
    IF applied' # <<>> /\ ~IsTrue(applied'[Len(applied')].result.noInertia)
    THEN 1 ELSE 0

C31_TickEveryFrame ==
    /\ [][(op' \in {"dispatch", "frame"} /\ IsTrue(last'.result.needsRenderFrame))
             => (frameId' /\ frames' = 1)]_vars
    /\ [][op' = "frame" =>
             /\ last'.type = "renderFrame"
             /\ \A h \in HandlerNames :
                   (hEnabled[h] /\ Declares(h, "renderFrame") /\ ~BlockedIn(h))
                       => h \in invoked'
             /\ IsTrue(last'.result.needsRenderFrame)
                   => HasCall(log', "_requestRenderFrame")
             /\ hasChange(last'.result) => Len(applied') = 1
             /\ changes' = <<>>]_vars

\* the tick of a frame made scrollZoom emit a zoom delta and ask for another
\* frame: the delta is applied in this frame and the next one is requested
C31_Witness ==
    /\ op = "frame"
    /\ "scrollZoom" \in invoked
    /\ IsTrue(last.result.needsRenderFrame)
    /\ last.result.zoomDelta = <<1>>
    /\ Len(applied) = 1
    /\ frames = 1
    /\ HasCall(log, "_requestRenderFrame")

\* the place of a notification in the order of one lifecycle step; 0 for the
\* other calls made on the host
Stage(call) ==
    CASE call.type = "movestart" -> 1
      [] call.type = "start" -> 2
      [] call.type = "move" -> 3
      [] call.type = "change" -> 4
      [] call.type = "end" -> 5
      [] call.type \in {"moveend", "easeTo"} -> 6
      [] OTHER -> 0

Notifications == {i \in DOMAIN log : Stage(log[i]) > 0}

\* C32: the notifications of one lifecycle step come in the order movestart,
\* category starts, move, category changes, category ends, gesture-end action
\* (easeTo or moveend); movestart and the gesture-end action occur at most
\* once, a category that starts also changes in the step, and move is fired
\* with the changes.
C32_NotificationOrder ==
    /\ \A i, j \in Notifications : i < j => Stage(log[i]) <= Stage(log[j])
    /\ Cardinality({i \in Notifications : Stage(log[i]) = 1}) <= 1
    /\ Cardinality({i \in Notifications : Stage(log[i]) = 6}) <= 1
    /\ Cardinality({i \in Notifications : Stage(log[i]) = 3}) <= 1
    /\ HasCall(log, "movestart") => HasCall(log, "start")
    /\ HasCall(log, "move") <=> HasCall(log, "change")
    /\ \A i \in Notifications :
          log[i].type = "start"
              => \E j \in Notifications :
                    j > i /\ log[j].type = "change" /\ log[j].cat = log[i].cat

\* one flush fires a notification of each of the six kinds
C32_Witness ==
    /\ op = "frame"
    /\ {Stage(log[i]) : i \in Notifications} = 1..6

\* the handlers earlier in the list that are in the active set of the dispatch
\* and that h does not allow
Blockers(h) ==
    {g \in previousActiveHandlers' :
        Pos(g) < Pos(h) /\ (AllowedOf(h) = Undef \/ g \notin AllowedOf(h)[1])}

\* C33: in every dispatch, also the tick of a frame, a disabled handler is
\* not invoked, is not reset whether or not an active handler would block it,
\* keeps what its isActive() reports, is not in the active set and owns no
\* category of the dispatch.
C33_DisabledIsSkipped ==
    [][op' \in {"dispatch", "frame"} =>
          \A h \in HandlerNames :
              ~hEnabled[h] =>
                  /\ h \notin invoked'
                  /\ h \notin resets'
                  /\ hActive'[h] = hActive[h]
                  /\ h \notin previousActiveHandlers'
                  /\ \A c \in Categories : last'.events[c].handlerName # h]_vars

\* scrollZoom was disabled in the middle of a zoom and still reports
\* isActive(); the tick of a frame in which mousePitch, which it does not
\* allow, is active has neither ticked nor reset it nor put it in the active
\* set
C33_Witness ==
    /\ op = "frame"
    /\ ~hEnabled["scrollZoom"]
    /\ hActive["scrollZoom"]
    /\ "mousePitch" \in previousActiveHandlers
    /\ "scrollZoom" \notin previousActiveHandlers
    /\ "scrollZoom" \notin resets
    /\ "scrollZoom" \notin invoked

\* C34: in every dispatch, also the tick of a frame, an enabled handler is
\* reset exactly when a handler registered before it is in the active set of
\* this dispatch and is not on its allow-list.  A handler with no such
\* predecessor is not reset and its declared method is called, whatever
\* handlers registered after it report isActive() from earlier dispatches; a
\* handler with such a predecessor is reset, left inactive and kept out of
\* the active set.
C34_BlockedByEarlierOnly ==
    [][op' \in {"dispatch", "frame"} =>
          \A h \in HandlerNames :
              hEnabled[h] =>
                  /\ h \in resets' <=> Blockers(h) # {}
                  /\ Blockers(h) = {} =>
                        (Declares(h, last'.type) <=> h \in invoked')
                  /\ Blockers(h) # {} =>
                        /\ h \notin invoked'
                        /\ ~hActive'[h]
                        /\ h \notin previousActiveHandlers']_vars

\* scrollZoom owns the zoom in progress, so it has been active since an
\* earlier dispatch; in this dispatch mousePitch, registered before it and
\* not allowing it, was called and became active, and scrollZoom was reset
C34_Witness ==
    /\ op = "dispatch"
    /\ hEnabled["scrollZoom"]
    /\ eventsInProgress["zoom"].handlerName = "scrollZoom"
    /\ "mousePitch" \in invoked
    /\ hActive["mousePitch"]
    /\ "mousePitch" \in previousActiveHandlers
    /\ "scrollZoom" \in resets
    /\ "mousePitch" \notin resets

\* C35: between two operations, that is whenever control is back with the
\* host after a dispatch, a frame callback or stop(), however they ended, the
\* re-entrancy guard is not held, and a stop() called by the host has found
\* it free and has taken effect.
C35_GuardFreeOnReturn ==
    /\ ~updatingCamera
    /\ op = "stop" =>
          /\ ~log[Len(log)].arg[1].guarded
          /\ StopCleared(Len(log))

\* no frame request is outstanding and the queue is empty
Settled == frames = 0 /\ ~frameId /\ changes = <<>>

\* the last operation was a frame callback, no handler reports isActive() and
\* the result of its tick did not set needsRenderFrame
Quiet ==
    /\ op = "frame"
    /\ \A h \in HandlerNames : ~hActive[h]
    /\ ~IsTrue(last.result.needsRenderFrame)

\* the state in which the frame callback that is due would leave the manager
AfterFrame ==
    {applyChanges(processInputEvent([Begin EXCEPT !.frames = @ - 1, !.frameId = FALSE],
                                    [type |-> "renderFrame", inputEvent |-> NoEvent],
                                    outcome)) :
        outcome \in OutcomeSeqs(Cur, "renderFrame", Len(Handlers))}

\* a frame callback that runs when all is quiet either uses up the request
\* without making a new one, or uses up the deactivations still to be told
QuietFrameAdvances ==
    (Quiet /\ frames > 0) =>
        \A s \in AfterFrame :
            \/ s.frames < frames
            \/ s.frames = frames /\ previousActiveHandlers # {}
                                 /\ s.previousActiveHandlers = {}

\* C36: every frame callback that runs when all is quiet can be told from one
\* that does not run: it uses up the request or the deactivations.  And if
\* from some moment on only frame callbacks run (no input event, no call of
\* stop), no handler reports isActive() and no tick has a result with
\* needsRenderFrame, then from some moment on no frame request is outstanding
\* and the queue is empty.
C36_FrameLoopSettles ==
    /\ []QuietFrameAdvances
    /\ <>[]Quiet => <>[]Settled

\* a frame found no handler active and nothing to tick, flushed the
\* deactivation that the frame before it had queued, and asked for no frame
C36_Witness ==
    /\ op = "frame"
    /\ Settled
    /\ \A h \in HandlerNames : ~hActive[h]
    /\ previousActiveHandlers = {}
    /\ ~IsTrue(last.result.needsRenderFrame)
    /\ HasCall(log, "end")

\* the handlers that own a category of the events in progress
Owners == {eventsInProgress[c].handlerName :
              c \in {c \in Categories : Present(eventsInProgress, c)}}

Active == {h \in HandlerNames : hActive[h]}

\* a flush, or a dispatch with a camera animation, has just completed
StepDone ==
    \/ op = "frame"
    \/ op = "dispatch" /\ IsTrue(last.result.cameraAnimation)

\* C37 as stated: after a flush, a call of stop() or a dispatch with a camera
\* animation, every category left in progress is owned by a handler that
\* reports isActive().
C37_OwnersActive ==
    /\ StepDone => Owners \subseteq Active
    /\ \A i \in StopCalls : log[i].arg[1].owners \subseteq log[i].arg[1].active

\* C37, amended: after a flush, a call of stop() that found the re-entrancy
\* guard free, or a dispatch with a camera animation, every category left in
\* progress is owned by a handler that reports isActive().
C37_OwnersActiveUnguarded ==
    /\ StepDone => Owners \subseteq Active
    /\ \A i \in StopCalls :
          ~log[i].arg[1].guarded
              => log[i].arg[1].owners \subseteq log[i].arg[1].active

\* a flush has ended one category, whose owner was no longer active, and has
\* left another in progress, whose owner is
C37_Witness ==
    /\ op = "frame"
    /\ HasCall(log, "end")
    /\ Owners # {}
    /\ Owners \subseteq Active

\* the places in the log of the next state where the end of category c is fired
EndsOf(c) == {i \in DOMAIN log' : log'[i].type = "end" /\ log'[i].cat = c}

\* C38: a call of stop() by the host that finds the guard free while
\* categories are in progress fires the end of each of them once and of no
\* other, then exactly one moveend, hands no target to easeTo, and leaves no
\* event in progress, no handler active and the queue empty, having applied
\* nothing of it to the transform.
C38_StopEndsGesture ==
    [][(op' = "stop" /\ ~updatingCamera /\ Owners # {}) =>
          /\ \A c \in Categories :
                Cardinality(EndsOf(c))
                    = IF Present(eventsInProgress, c) THEN 1 ELSE 0
          /\ CountCalls(log', "moveend") = 1
          /\ \A i \in DOMAIN log' :
                log'[i].type = "end"
                    => \E j \in DOMAIN log' : j > i /\ log'[j].type = "moveend"
          /\ ~HasCall(log', "easeTo")
          /\ ~HasCall(log', "movestart")
          /\ eventsInProgress' = NoEvents
          /\ \A h \in HandlerNames : ~hActive'[h]
          /\ changes' = <<>>
          /\ applied' = <<>>
          /\ tr' = tr]_vars

\* stop() has ended the drag and the zoom that were in progress together
C38_Witness ==
    /\ op = "stop"
    /\ ~log[Len(log)].arg[1].guarded
    /\ \E i, j, k \in DOMAIN log :
          /\ i < k /\ j < k
          /\ log[i].type = "end" /\ log[i].cat = "drag"
          /\ log[j].type = "end" /\ log[j].cat = "zoom"
          /\ log[k].type = "moveend"
    /\ eventsInProgress = NoEvents
    /\ changes = <<>>

\* C39: an operation that ends a gesture without inertial target (moveend is
\* fired) calls resetNorth, once, exactly when the bearing b of the map has
\* b # 0 and |b| < bearingSnap, whether or not a rotate event has been in
\* progress since the gesture before it ended.
C39_ResetNorthByBearingOnly ==
    [][HasCall(log', "moveend") =>
          /\ ~HasCall(log', "easeTo")
          /\ CountCalls(log', "resetNorth")
                = IF tr'.bearing # 0 /\ Abs(tr'.bearing) < bearingSnap THEN 1 ELSE 0]_vars

\* a gesture of the pitch handler, in which no rotate event was ever in
\* progress, ends without inertial target on a map whose bearing is within
\* the snap range: resetNorth is called
C39_Witness ==
    /\ hEnabled["mousePitch"]
    /\ ~bearingChanged
    /\ tr.bearing = 1
    /\ \E i, j, k \in DOMAIN log :
          /\ i < j /\ j < k
          /\ log[i].type = "end" /\ log[i].cat = "pitch"
          /\ log[j].type = "moveend"
          /\ log[k].type = "resetNorth"

====
